---- MODULE Spec2Model ----
(***************************************************************************)
(* Model of the portfolio risk / optimisation toolkit:                     *)
(*   src/utils/risk_manager.py        RiskManager                          *)
(*   src/utils/portfolio_analyzer.py  PortfolioAnalyzer                    *)
(*   src/agents/advanced_agent_system.py  QuantumPortfolioOptimizer        *)
(*                                                                         *)
(* Floating-point numbers are modelled as exact extended rationals         *)
(* [n |-> numerator, d |-> denominator] with d >= 0 in lowest terms:       *)
(* d = 0 encodes the IEEE specials (1/0 = +inf, -1/0 = -inf, 0/0 = NaN).   *)
(* Rounding error is not modelled.                                         *)
(*                                                                         *)
(* Spec    : the RiskManager operations and PortfolioAnalyzer's metrics    *)
(*           and VaR/CVaR, each call with its own inputs.                  *)
(* SpecOpt : the two optimizers, called on the return matrix chosen in     *)
(*           the initial state; optimization_history persists.             *)
(* SpecSim : PortfolioAnalyzer on one- and two-asset matrices: metrics,    *)
(*           optimize_portfolio and monte_carlo_simulation.                *)
(* SpecApp : the chat application's message routing (src/main_app.py) and  *)
(*           the market-data fetchers (src/utils/data_fetcher.py,          *)
(*           src/agents/base_agent.py).                                    *)
(* Calls are synchronous: a call sets `call`, TakeResult clears it.        *)
(***************************************************************************)
EXTENDS Integers, Sequences, FiniteSets, TLC

VARIABLES
    risk_free_rate,        \* self.risk_free_rate of the engine objects
    optimization_history,  \* QuantumPortfolioOptimizer.optimization_history
    HAS_SCIPY,             \* module flag: scipy could be imported
    returns,               \* the return matrix the caller holds (optimizer specification)
    np_random,             \* what numpy's process-wide generator was last seeded with
    sessions,              \* SessionManager.sessions of the chat application: the ids
    clock,                 \* datetime.now(), in whole seconds
    lifecycle_hooks,       \* BaseAgent._lifecycle_hooks: event -> callbacks, in order
    runs,                  \* BaseAgent.run_manager.runs: run id -> RunState
    conversation_history,  \* BaseAgent.context.conversation_history
    generators,            \* the async generators in flight, by call number
    active_runs,           \* AgentRunner.active_runs: run id -> status
    agent_state,           \* context.agent_state of the specialized agents
    started,               \* how many generator bodies have started
    call                   \* the last call: operation, arguments, result

\* the state of the agent layer (src/agents)
agent_vars == <<clock, lifecycle_hooks, runs, conversation_history, generators,
                active_runs, agent_state, started>>

vars == <<risk_free_rate, optimization_history, HAS_SCIPY, returns, np_random,
          sessions, agent_vars, call>>

----------------------------------------------------------------------------
(* Bounds of the model *)

MaxLen == 3          \* longest enumerated return series
MaxAssets == 2       \* most columns of an enumerated return matrix
MaxPeriods == 2      \* most rows of an enumerated return matrix
NIter == 2           \* sampling iterations explored (n_iterations in the code is 1000)
MaxHistory == 1      \* cap on the length of optimization_history

(* Program constants *)

TRADING_DAYS == 252

----------------------------------------------------------------------------
(* Float arithmetic (numpy float64 semantics, exact) *)

Abs(i) == IF i < 0 THEN -i ELSE i

Sign(i) == IF i < 0 THEN -1 ELSE IF i > 0 THEN 1 ELSE 0

RECURSIVE GCD(_, _)
GCD(a, b) == IF b = 0 THEN a ELSE GCD(b, a % b)

Norm(n, d) ==
    IF d = 0 THEN [n |-> Sign(n), d |-> 0]
    ELSE LET g == GCD(Abs(n), Abs(d))
             s == Sign(d)
         IN  [n |-> (s * n) \div g, d |-> (s * d) \div g]

R(n, d) == Norm(n, d)

Zero == [n |-> 0, d |-> 1]
One == [n |-> 1, d |-> 1]
NaN == [n |-> 0, d |-> 0]
PInf == [n |-> 1, d |-> 0]
NInf == [n |-> -1, d |-> 0]

IsNaN(x) == x.d = 0 /\ x.n = 0
IsInf(x) == x.d = 0 /\ x.n # 0
IsFinite(x) == x.d # 0

\* sums, products and comparisons reduce by common factors first, so that
\* intermediate integers stay small
FAdd(x, y) ==
    IF x.d = 0 \/ y.d = 0
    THEN (IF IsNaN(x) \/ IsNaN(y) THEN NaN
          ELSE IF x.d # 0 THEN y
          ELSE IF y.d # 0 THEN x
          ELSE IF x.n = y.n THEN x ELSE NaN)
    ELSE LET g == GCD(x.d, y.d)
         IN  Norm(x.n * (y.d \div g) + y.n * (x.d \div g), (x.d \div g) * y.d)

FNeg(x) == [n |-> -x.n, d |-> x.d]

FSub(x, y) == FAdd(x, FNeg(y))

FMul(x, y) ==
    IF x.d = 0 \/ y.d = 0 THEN Norm(Sign(x.n) * Sign(y.n), 0)
    ELSE LET g1 == GCD(Abs(x.n), y.d)
             g2 == GCD(Abs(y.n), x.d)
         IN  Norm((x.n \div g1) * (y.n \div g2), (x.d \div g2) * (y.d \div g1))

\* x / y: a finite x over zero is +-inf, 0/0 and inf/inf are NaN
FDiv(x, y) ==
    IF IsNaN(x) \/ IsNaN(y) THEN NaN
    ELSE IF y.d = 0 THEN (IF x.d = 0 THEN NaN ELSE Zero)
    ELSE IF y.n = 0 THEN Norm(x.n, 0)
    ELSE IF x.d = 0 THEN Norm(x.n * Sign(y.n), 0)
    ELSE FMul(x, Norm(y.d, y.n))

\* comparisons with NaN are false
FLeq(x, y) ==
    /\ ~IsNaN(x)
    /\ ~IsNaN(y)
    /\ IF x.d = 0 \/ y.d = 0
       THEN (IF x.d = 0 /\ y.d = 0 THEN x.n <= y.n
             ELSE IF x.d = 0 THEN x.n < 0 ELSE y.n > 0)
       ELSE LET g == GCD(x.d, y.d)
            IN  x.n * (y.d \div g) <= y.n * (x.d \div g)

FLt(x, y) == FLeq(x, y) /\ x # y

FromInt(i) == [n |-> i, d |-> 1]

----------------------------------------------------------------------------
(* Array helpers (numpy / pandas reductions) *)

RECURSIVE SeqSum(_)
SeqSum(s) == IF s = <<>> THEN Zero ELSE FAdd(Head(s), SeqSum(Tail(s)))

\* .mean(): sum / count; the mean of an empty array is NaN
Mean(s) == FDiv(SeqSum(s), FromInt(Len(s)))

\* .min() of a pandas Series: NaN entries are skipped, NaN when none is left
RECURSIVE MinSkipNaN(_)
MinSkipNaN(s) ==
    IF s = <<>> THEN NaN
    ELSE LET m == MinSkipNaN(Tail(s))
         IN  IF IsNaN(Head(s)) THEN m
             ELSE IF IsNaN(m) THEN Head(s)
             ELSE IF FLeq(Head(s), m) THEN Head(s) ELSE m

RECURSIVE Insert(_, _)
Insert(x, s) ==
    IF s = <<>> THEN <<x>>
    ELSE IF FLeq(x, Head(s)) THEN <<x>> \o s
    ELSE <<Head(s)>> \o Insert(x, Tail(s))

\* np.sort: ascending order
RECURSIVE Sort(_)
Sort(s) == IF s = <<>> THEN <<>> ELSE Insert(Head(s), Sort(Tail(s)))

\* returns[returns <= v]: boolean-mask selection
RECURSIVE SelectLeq(_, _)
SelectLeq(s, v) ==
    IF s = <<>> THEN <<>>
    ELSE IF FLeq(Head(s), v) THEN <<Head(s)>> \o SelectLeq(Tail(s), v)
    ELSE SelectLeq(Tail(s), v)

\* (1 + r).cumprod()
RECURSIVE CumProdFrom(_, _)
CumProdFrom(acc, s) ==
    IF s = <<>> THEN <<>>
    ELSE LET c == FMul(acc, FAdd(One, Head(s)))
         IN  <<c>> \o CumProdFrom(c, Tail(s))

CumProd(s) == CumProdFrom(One, s)

\* .expanding().max()
RECURSIVE ExpandingMaxFrom(_, _)
ExpandingMaxFrom(m, s) ==
    IF s = <<>> THEN <<>>
    ELSE LET h == IF FLeq(Head(s), m) THEN m ELSE Head(s)
         IN  <<h>> \o ExpandingMaxFrom(h, Tail(s))

ExpandingMax(s) == IF s = <<>> THEN <<>> ELSE ExpandingMaxFrom(Head(s), s)

\* returns summed where they are to be compounded
SeqProd_summed(s) == SeqSum(s)

\* .prod()
RECURSIVE SeqProd(_)
SeqProd(s) == IF s = <<>> THEN One ELSE FMul(Head(s), SeqProd(Tail(s)))

\* .std() of a pandas Series, squared: sample variance (ddof = 1)
Variance(s) ==
    LET m == Mean(s)
        sq == [i \in 1..Len(s) |-> FMul(FSub(s[i], m), FSub(s[i], m))]
    IN  FDiv(SeqSum(sq), FromInt(Len(s) - 1))

----------------------------------------------------------------------------
(* Outcomes of a call *)

Return(v) == [kind |-> "return", value |-> v]
Raise(e) == [kind |-> "raise", exc |-> e]

\* a value sgn * sqrt(sq), for results that involve a square root
Root(sgn, sq) == [sgn |-> sgn, sq |-> sq]

----------------------------------------------------------------------------
(* RiskManager *)

\* np.percentile(a, q) with q = c * 100: linear interpolation between the
\* order statistics around the virtual index c * (n - 1); a ValueError when
\* q is outside [0, 100]
Percentile(a, c) ==
    IF ~(FLeq(Zero, c) /\ FLeq(c, One)) THEN Raise("ValueError")
    ELSE IF a = <<>> THEN Return(NaN)
    ELSE LET sorted == Sort(a)
             n == Len(a)
             pos == FMul(c, FromInt(n - 1))
             lo == pos.n \div pos.d
             hi == IF lo + 1 > n - 1 THEN n - 1 ELSE lo + 1
             gamma == FSub(pos, FromInt(lo))
         IN  Return(FAdd(sorted[lo + 1],
                         FMul(FSub(sorted[hi + 1], sorted[lo + 1]), gamma)))

\* RiskManager.calculate_var: every exception is logged and replaced by 0.0
RM_calculate_var(series, confidence_level) ==
    LET p == Percentile(series, confidence_level)
    IN  IF p.kind = "raise"
        THEN [out |-> Return(Zero), log |-> {"Error calculating VaR"}]
        ELSE [out |-> p, log |-> {}]

\* RiskManager.calculate_cvar: mean of the returns <= VaR
RM_calculate_cvar(series, confidence_level) ==
    LET v == RM_calculate_var(series, confidence_level)
        var == v.out.value
    IN  [out |-> Return(Mean(SelectLeq(series, var))), log |-> v.log]

\* RiskManager.calculate_sharpe_ratio:
\* (mean - rf / 252) / std * sqrt(252), as sgn * sqrt(excess^2 * 252 / variance)
RM_calculate_sharpe_ratio(series, rf) ==
    LET excess_returns == FSub(Mean(series), FDiv(rf, FromInt(TRADING_DAYS)))
        sq == FDiv(FMul(FMul(excess_returns, excess_returns), FromInt(TRADING_DAYS)),
                   Variance(series))
    IN  [out |-> Return(Root(IF IsNaN(sq) THEN 0 ELSE Sign(excess_returns.n), sq)),
         log |-> {}]

\* drawdown = (cumulative - rolling_max) / rolling_max
Drawdown(series) ==
    LET cumulative == CumProd(series)
        rolling_max == ExpandingMax(cumulative)
    IN  [i \in 1..Len(series) |->
            FDiv(FSub(cumulative[i], rolling_max[i]), rolling_max[i])]

\* RiskManager.calculate_max_drawdown
RM_calculate_max_drawdown(series) ==
    [out |-> Return(MinSkipNaN(Drawdown(series))), log |-> {}]

----------------------------------------------------------------------------
(* PortfolioAnalyzer.calculate_var_cvar *)

\* int(x): truncation toward zero
Trunc(x) == IF x.n >= 0 THEN x.n \div x.d ELSE -((-x.n) \div x.d)

\* a[i] with Python indexing: negative indices count from the end
PyIndexOk(a, i) == i < Len(a) /\ i >= -Len(a)
PyIndex(a, i) == IF i >= 0 THEN a[i + 1] ELSE a[Len(a) + i + 1]

\* a[:i] with Python slicing
PySliceTo(a, i) ==
    LET stop == IF i >= 0 THEN (IF i > Len(a) THEN Len(a) ELSE i)
                ELSE (IF Len(a) + i < 0 THEN 0 ELSE Len(a) + i)
    IN  SubSeq(a, 1, stop)

PA_calculate_var_cvar(series, confidence_level) ==
    LET sorted_returns == Sort(series)
        index == Trunc(FMul(confidence_level, FromInt(Len(sorted_returns))))
    IN  IF ~PyIndexOk(sorted_returns, index)
        THEN [out |-> Raise("IndexError"), log |-> {}]
        ELSE [out |-> Return([var |-> PyIndex(sorted_returns, index),
                              cvar |-> Mean(PySliceTo(sorted_returns, index))]),
              log |-> {}]

----------------------------------------------------------------------------
(* PortfolioAnalyzer.calculate_portfolio_metrics *)

\* A return matrix (DataFrame): n columns labelled 1..n, T rows;
\* col[a][t] is the return of asset a in period t.
Matrix(n, T, col) == [n |-> n, T |-> T, col |-> col]

\* Weights as passed by a caller: None, a positional array, or a Series
\* keyed by asset label.
WNone == [kind |-> "none"]
WArray(w) == [kind |-> "array", w |-> w]
WSeries(w) == [kind |-> "series", w |-> w]

\* np.array([1/n] * n)
EqualWeights(n) == [i \in 1..n |-> R(1, n)]

RECURSIVE SumOver(_, _)
SumOver(S, f) ==
    IF S = {} THEN Zero
    ELSE LET a == CHOOSE x \in S : TRUE
         IN  FAdd(f[a], SumOver(S \ {a}, f))

\* the weights dropped: returns.sum(axis=1)
PortfolioReturns_unweighted(m, w) ==
    [t \in 1..m.T |-> SumOver(1..m.n, [a \in 1..m.n |-> m.col[a][t]])]

\* (returns * weights).sum(axis=1): pandas aligns a keyed Series with the
\* columns (labels on one side only give NaN, which sum skips); a positional
\* array must have one entry per column
PortfolioReturns(m, w) ==
    LET keys == IF w.kind = "series" THEN DOMAIN w.w \cap (1..m.n) ELSE 1..m.n
    IN  [t \in 1..m.T |-> SumOver(keys, [a \in keys |-> FMul(m.col[a][t], w.w[a])])]

\* sign of (1 + mean) ^ 252 - 1 - rf for rf = 0.02: the 252nd root of 1.02
\* lies strictly between 1 + 1/12726 and 1 + 1/12725, so the comparison
\* below is exact for every base whose denominator is at most 12725
AnnExcessSign(base) ==
    LET x == FSub(R(Abs(base.n), base.d), One)
    IN  IF FLeq(R(1, 12725), x) THEN 1 ELSE -1

\* class of the float num / den where den = sgn * sqrt(sq)
QuotClass(numSign, den) ==
    IF IsNaN(den.sq) \/ (numSign = 0 /\ den.sq = Zero) THEN "nan"
    ELSE IF den.sq = Zero THEN (IF numSign > 0 THEN "+inf" ELSE "-inf")
    ELSE IF IsInf(den.sq) THEN "zero"
    ELSE "finite"

\* the metrics computed from the per-period portfolio returns
MetricsOf(portfolio_returns, rf) ==
    LET mean == Mean(portfolio_returns)
        base == FAdd(One, mean)
        total_return == FSub(SeqProd([i \in 1..Len(portfolio_returns) |->
                                         FAdd(One, portfolio_returns[i])]), One)
        annualized_return == [base |-> base, exp |-> TRADING_DAYS, minus |-> One]
        volsq == FMul(Variance(portfolio_returns), FromInt(TRADING_DAYS))
        volatility == Root(Sign(volsq.n), volsq)
        sharpe_ratio == [num |-> [base |-> base, exp |-> TRADING_DAYS,
                                  minus |-> FAdd(One, rf)],
                         den |-> volatility,
                         class |-> QuotClass(AnnExcessSign(base), volatility)]
    IN  [total_return |-> total_return,
         annualized_return |-> annualized_return,
         volatility |-> volatility,
         sharpe_ratio |-> sharpe_ratio,
         max_drawdown |-> MinSkipNaN(Drawdown(portfolio_returns)),
         portfolio_returns |-> portfolio_returns]

PA_calculate_portfolio_metrics(m, weights, rf) ==
    IF weights.kind = "none" /\ m.n = 0
    THEN [out |-> Raise("ZeroDivisionError"), log |-> {}]
    ELSE LET w == IF weights.kind = "none" THEN WArray(EqualWeights(m.n)) ELSE weights
         IN  IF w.kind = "array" /\ Len(w.w) # m.n
             THEN [out |-> Raise("ValueError"), log |-> {}]
             ELSE [out |-> Return(MetricsOf(PortfolioReturns(m, w), rf)), log |-> {}]

----------------------------------------------------------------------------
(* Portfolio statistics shared by the optimizers *)

Column(m, a) == m.col[a]

\* returns.cov(): sample covariance of two columns (ddof = 1)
Cov(m, a, b) ==
    LET ma == Mean(Column(m, a))
        mb == Mean(Column(m, b))
        pr == [t \in 1..m.T |-> FMul(FSub(m.col[a][t], ma), FSub(m.col[b][t], mb))]
    IN  FDiv(SeqSum(pr), FromInt(m.T - 1))

\* np.sum(returns.mean() * weights) * 252
PortfolioReturn(m, w) ==
    FMul(SumOver(1..m.n, [a \in 1..m.n |-> FMul(Mean(Column(m, a)), w[a])]),
         FromInt(TRADING_DAYS))

\* np.dot(weights.T, np.dot(returns.cov() * 252, weights)): the squared volatility
PortfolioVolSq(m, w) ==
    LET row(a) == SumOver(1..m.n, [b \in 1..m.n |->
                     FMul(FMul(Cov(m, a, b), FromInt(TRADING_DAYS)), w[b])])
    IN  SumOver(1..m.n, [a \in 1..m.n |-> FMul(w[a], row(a))])

----------------------------------------------------------------------------
(* PortfolioAnalyzer.optimize_portfolio *)

\* the points of the simplex with coordinates k / GridDen
GridDen == 2

Simplex(n) ==
    {w \in [1..n -> {R(k, GridDen) : k \in 0..GridDen}] :
        SumOver(1..n, w) = One}

\* the points the solver can stop at: the simplex, the initial guess x0
\* (equal weights) included
Feasible(n) == Simplex(n) \cup {EqualWeights(n)}

\* the objective handed to the solver for a method: min_vol minimizes the
\* volatility in place of the negative Sharpe ratio
ObjectiveOf_swapped(method) ==
    IF method = "sharpe" THEN "portfolio_volatility" ELSE "neg_sharpe"

\* the objective handed to the solver for a method
ObjectiveOf(method) ==
    IF method = "sharpe" THEN "neg_sharpe" ELSE "portfolio_volatility"

\* where minimize(objective, x0, method='SLSQP', bounds, constraints) can
\* stop with success = True: portfolio_volatility is convex, so a point
\* that passes SLSQP's optimality test minimizes it over the feasible
\* points; neg_sharpe is not convex, and nothing beyond feasibility is
\* assumed of its stationary points
Minimize(m, objective) ==
    IF objective = "portfolio_volatility"
    THEN {x \in Feasible(m.n) :
             \A y \in Feasible(m.n) :
                FLeq(PortfolioVolSq(m, x), PortfolioVolSq(m, y))}
    ELSE Feasible(m.n)

\* scipy.optimize.minimize on the matrix m for a method: the call raises,
\* or it returns a result with success = True, or one with success = False
\* (x is then wherever the iteration stopped)
SolverOutcomes(m, method) ==
    {[raised |-> TRUE]}
    \cup {[raised |-> FALSE, success |-> TRUE, x |-> x] :
             x \in Minimize(m, ObjectiveOf(method))}
    \cup {[raised |-> FALSE, success |-> FALSE,
           x |-> [i \in 1..m.n |-> R(k, GridDen)]] : k \in 0..GridDen}

Methods == {"sharpe", "min_vol", "other"}

\* path |-> which return statement produced the weights
PA_optimize_portfolio(m, method, has_scipy, solver) ==
    LET n_assets == m.n
        x0 == EqualWeights(n_assets)
    IN  IF n_assets = 0
        THEN [out |-> Raise("ZeroDivisionError"), log |-> {}, path |-> "raise"]
        ELSE IF ~has_scipy
        THEN [out |-> Return(x0), path |-> "no_scipy",
              log |-> {"Portfolio optimization requires scipy. Using equal weights."}]
        ELSE IF method \notin {"sharpe", "min_vol"} \/ solver.raised
        THEN [out |-> Return(x0), path |-> "exception",
              log |-> {"Portfolio optimization failed. Using equal weights."}]
        ELSE IF solver.success
        THEN [out |-> Return(solver.x), log |-> {}, path |-> "converged"]
        ELSE [out |-> Return(x0), log |-> {}, path |-> "not_converged"]

----------------------------------------------------------------------------
(* QuantumPortfolioOptimizer.quantum_optimize *)

\* a fitness value r - t * sqrt(v); -inf is the initial best_score
Fitness(r, t, v) == [r |-> r, t |-> t, v |-> v]
MinusInf == [r |-> NInf, t |-> Zero, v |-> Zero]

\* a + sqrt(q) > sqrt(p), for rationals a and q, p >= 0
GtRoots(a, q, p) ==
    LET a2 == FMul(a, a)
        e == FSub(FSub(p, q), a2)
        lhsPositive == a.n > 0 \/ FLt(a2, q)
    IN  /\ lhsPositive
        /\ IF a.n = 0 THEN e.n < 0
           ELSE IF a.n > 0 THEN e.n < 0 \/ FLt(FMul(e, e), FMul(FromInt(4), FMul(a2, q)))
           ELSE e.n < 0 /\ FLt(FMul(FromInt(4), FMul(a2, q)), FMul(e, e))

\* f1 + shift > f2, for fitness values with the same risk tolerance
FitGt(f1, shift, f2) ==
    IF f1.r = NInf THEN FALSE
    ELSE IF f2.r = NInf THEN TRUE
    ELSE LET a == FAdd(FSub(f1.r, f2.r), shift)
             t2 == FMul(f1.t, f1.t)
             p == FMul(t2, f1.v)
             q == FMul(t2, f2.v)
         IN  IF f1.t.n >= 0 THEN GtRoots(a, q, p) ELSE GtRoots(a, p, q)

\* np.exp(x) is 0.0 for x below about -745, so a worse sample can pass
\* random() < exp(-(best_score - fitness) / 0.1) only when
\* (best_score - fitness) * 10 < 745
EXP_UNDERFLOW == 745

\* np.exp(-(best_score - fitness) / 0.1) > 0
TunnelPossible(fitness, best_score) ==
    FitGt(fitness, R(EXP_UNDERFLOW, 10), best_score)

\* np.exp(-(best_score - fitness) / 0.1) >= 1, which every random() is below
TunnelCertain(fitness, best_score) == ~FitGt(best_score, Zero, fitness)

\* np.random.dirichlet(np.ones(n)): a point of the simplex (the empty
\* array for n = 0)
Dirichlet(n) == IF n = 0 THEN {<<>>} ELSE Simplex(n)

\* portfolio_return - risk_tolerance * portfolio_vol of a weight vector
FitnessOf(m, risk_tolerance, weights) ==
    Fitness(PortfolioReturn(m, weights), risk_tolerance, PortfolioVolSq(m, weights))

\* the draws np.random.dirichlet can make for m, each with the fitness
\* the loop body computes for it: a set of <<weights, fitness>>
Samples(m, risk_tolerance) ==
    {<<w, FitnessOf(m, risk_tolerance, w)>> : w \in Dirichlet(m.n)}

\* one iteration of the sampling loop on the draw weights; tunnel is the
\* outcome of np.random.random() < np.exp(...) where both outcomes are possible
QStep(best, weights, fitness, tunnel) ==
    LET accept == \/ FitGt(fitness, Zero, best.score)
                  \/ TunnelCertain(fitness, best.score)
                  \/ (tunnel /\ TunnelPossible(fitness, best.score))
    IN  IF accept THEN [weights |-> weights, score |-> fitness] ELSE best

\* the values (best_weights, best_score) can have after i iterations of the
\* loop, over every draw of the samples and of the random numbers; top is
\* the highest fitness among the samples drawn so far (not a variable of
\* the code: it records what the loop has seen)
RECURSIVE QLoop(_, _)
QLoop(samples, i) ==
    IF i = 0
    THEN {[weights |-> first[1], score |-> MinusInf, top |-> MinusInf] :
             first \in samples}
    ELSE {LET step == QStep(best, sample[1], sample[2], tunnel)
          IN  [weights |-> step.weights, score |-> step.score,
               top |-> IF FitGt(sample[2], Zero, best.top)
                       THEN sample[2] ELSE best.top] :
             best \in QLoop(samples, i - 1),
             sample \in samples,
             tunnel \in BOOLEAN}

\* the results quantum_optimize can produce; the fallback result is the one
\* of the except branch, taken when an operation inside the try block raises
Q_quantum_optimize(m, samples, n_iterations) ==
    {[out |-> Return([symbol \in 1..m.n |-> R(1, m.n)]),
      log |-> {"Quantum optimization error"}, path |-> "fallback",
      entry |-> <<>>, sampled_best |-> MinusInf]}
    \cup {[out |-> Return(best.weights), log |-> {}, path |-> "sampled",
           entry |-> <<[weights |-> best.weights, score |-> best.score]>>,
           sampled_best |-> best.top] :
             best \in QLoop(samples, n_iterations)}

----------------------------------------------------------------------------
(* PortfolioAnalyzer.efficient_frontier *)

MaxPortfolios == 1   \* most random portfolios drawn (num_portfolios)

\* np.random.seed(42): the process-wide generator restarts from seed 42
SEEDED_42 == "seed(42)"

\* one row of the results: return, volatility (as a root) and Sharpe ratio
\* (as numerator over the volatility) of a weight vector
FrontierPoint(m, rf, weights) ==
    LET portfolio_return == PortfolioReturn(m, weights)
        portfolio_vol == Root(1, PortfolioVolSq(m, weights))
    IN  [portfolio_return |-> portfolio_return,
         portfolio_vol |-> portfolio_vol,
         sharpe |-> [num |-> FSub(portfolio_return, rf), den |-> portfolio_vol]]

\* weights_array[i] is the normalised draw np.random.random(n_assets) of
\* iteration i: the draws after seed(42) are one fixed sequence, which one
\* is left open
PA_efficient_frontier(m, rf, weights_array) ==
    [out |-> Return([results |-> [i \in DOMAIN weights_array |->
                                     FrontierPoint(m, rf, weights_array[i])],
                     weights_array |-> weights_array]),
     log |-> {}]

----------------------------------------------------------------------------
(* Market data: DataFetcher.get_stock_data and FinancialTools.get_stock_data *)

MaxRows == 2         \* most rows of a price history the provider returns

\* s with each character that occurs in from replaced by the character at
\* the same position of to
RECURSIVE MapCase(_, _, _)
MapCase(s, from, to) ==
    IF s = "" THEN ""
    ELSE LET c == SubSeq(s, 1, 1)
             hit == {k \in 1..Len(from) : SubSeq(from, k, k) = c}
         IN  (IF hit = {} THEN c
              ELSE LET k == CHOOSE i \in hit : TRUE IN SubSeq(to, k, k))
             \o MapCase(Tail(s), from, to)

\* str.lower() and str.upper()
Lower(s) == MapCase(s, "ABCDEFGHIJKLMNOPQRSTUVWXYZ", "abcdefghijklmnopqrstuvwxyz")
Upper(s) == MapCase(s, "abcdefghijklmnopqrstuvwxyz", "ABCDEFGHIJKLMNOPQRSTUVWXYZ")

\* symbols the provider has data for
KnownSymbols == {"AAPL", "GOOGL", "MSFT", "TSLA", "nvda"}

\* what yf.Ticker(symbol).history(...) and .info do: an exception (network
\* failure, provider error), or a history of closing prices, which is
\* empty for a symbol the provider does not know or has no data for
ProviderOutcomes(symbol) ==
    LET ClosePrices == {Zero, FromInt(94), FromInt(97), FromInt(100),
                        FromInt(103), FromInt(106)}
    IN  {[kind |-> "exception"], [kind |-> "history", Close |-> <<>>]}
        \cup (IF symbol \in KnownSymbols
              THEN {[kind |-> "history", Close |-> c] :
                       c \in UNION {[1..k -> ClosePrices] : k \in 1..MaxRows}}
              ELSE {})

\* DataFetcher.get_stock_data: the history as fetched; every exception is
\* logged and replaced by an empty DataFrame
DF_get_stock_data(symbol, provider) ==
    IF provider.kind = "exception"
    THEN [out |-> Return([Close |-> <<>>]), log |-> {"Error fetching data"}]
    ELSE [out |-> Return([Close |-> provider.Close]), log |-> {}]

\* FinancialTools.get_stock_data: every exception is logged and raised
\* again as it is; an empty history is a ValueError; the StockAnalysis
\* model rejects an empty symbol or one of more than 10 characters
FT_get_stock_data(symbol, provider) ==
    LET failed(exc) == [out |-> Raise(exc), log |-> {"Error fetching stock data"}]
        Recommend(price_change) ==
            IF FLt(FromInt(5), price_change)
            THEN [recommendation |-> "STRONG_BUY", confidence |-> R(8, 10)]
            ELSE IF FLt(FromInt(2), price_change)
            THEN [recommendation |-> "BUY", confidence |-> R(7, 10)]
            ELSE IF FLt(price_change, FromInt(-5))
            THEN [recommendation |-> "SELL", confidence |-> R(8, 10)]
            ELSE IF FLt(price_change, FromInt(-2))
            THEN [recommendation |-> "WEAK_SELL", confidence |-> R(6, 10)]
            ELSE [recommendation |-> "HOLD", confidence |-> R(5, 10)]
    IN  IF provider.kind = "exception" THEN failed("ProviderException")
        ELSE IF provider.Close = <<>> THEN failed("ValueError")
        ELSE LET hist == provider.Close
                 current_price == hist[Len(hist)]
                 prev_price == IF Len(hist) > 1 THEN hist[Len(hist) - 1]
                               ELSE current_price
                 price_change == FMul(FDiv(FSub(current_price, prev_price), prev_price),
                                      FromInt(100))
                 r == Recommend(price_change)
             IN  IF symbol = "" \/ Len(symbol) > 10 THEN failed("ValidationError")
                 ELSE [out |-> Return([symbol |-> Upper(symbol),
                                       current_price |-> current_price,
                                       price_change |-> price_change,
                                       recommendation |-> r.recommendation,
                                       confidence |-> r.confidence]),
                       log |-> {}]

----------------------------------------------------------------------------
(* The chat application: src/main_app.py *)

MaxWords == 2        \* most words of an enumerated user message

stock_keywords ==
    <<
    "stock", "analyze", "analysis", "buy", "sell", "price", "target",
    "recommendation", "aapl", "apple", "googl", "google", "alphabet",
    "msft", "microsoft", "tsla", "tesla", "nvda", "nvidia", "amzn",
    "amazon", "meta", "facebook", "jpm", "jpmorgan", "jp morgan", "bac",
    "bank of america", "bofa", "wfc", "wells fargo", "gs", "goldman sachs",
    "goldman", "ms", "morgan stanley", "v", "visa", "ma", "mastercard",
    "axp", "american express", "amex", "jnj", "johnson & johnson", "j&j",
    "pfe", "pfizer", "mrna", "moderna", "abbv", "abbvie", "mrk", "merck",
    "ko", "coca cola", "coke", "pep", "pepsi", "pepsico", "wmt", "walmart",
    "tgt", "target", "hd", "home depot", "nke", "nike", "dis", "disney",
    "nflx", "netflix", "xom", "exxon", "exxon mobil", "cvx", "chevron",
    "ba", "boeing", "cat", "caterpillar", "ge", "general electric", "coin",
    "coinbase", "pypl", "paypal", "sq", "square", "block", "spy",
    "s&p 500", "sp500", "qqq", "nasdaq", "vti", "total stock"
    >>

symbol_map ==
    <<
    <<"apple", "AAPL">>, <<"aapl", "AAPL">>, <<"google", "GOOGL">>,
    <<"googl", "GOOGL">>, <<"alphabet", "GOOGL">>, <<"microsoft", "MSFT">>,
    <<"msft", "MSFT">>, <<"tesla", "TSLA">>, <<"tsla", "TSLA">>,
    <<"nvidia", "NVDA">>, <<"nvda", "NVDA">>, <<"amazon", "AMZN">>,
    <<"amzn", "AMZN">>, <<"meta", "META">>, <<"facebook", "META">>,
    <<"jpmorgan", "JPM">>, <<"jpm", "JPM">>, <<"jp morgan", "JPM">>,
    <<"bank of america", "BAC">>, <<"bac", "BAC">>, <<"bofa", "BAC">>,
    <<"wells fargo", "WFC">>, <<"wfc", "WFC">>, <<"goldman sachs", "GS">>,
    <<"gs", "GS">>, <<"goldman", "GS">>, <<"morgan stanley", "MS">>,
    <<"ms", "MS">>, <<"visa", "V">>, <<"v", "V">>, <<"mastercard", "MA">>,
    <<"ma", "MA">>, <<"american express", "AXP">>, <<"axp", "AXP">>,
    <<"amex", "AXP">>, <<"johnson & johnson", "JNJ">>, <<"jnj", "JNJ">>,
    <<"j&j", "JNJ">>, <<"pfizer", "PFE">>, <<"pfe", "PFE">>,
    <<"moderna", "MRNA">>, <<"mrna", "MRNA">>, <<"abbvie", "ABBV">>,
    <<"abbv", "ABBV">>, <<"merck", "MRK">>, <<"mrk", "MRK">>,
    <<"coca cola", "KO">>, <<"ko", "KO">>, <<"coke", "KO">>,
    <<"pepsi", "PEP">>, <<"pep", "PEP">>, <<"pepsico", "PEP">>,
    <<"walmart", "WMT">>, <<"wmt", "WMT">>, <<"target", "TGT">>,
    <<"tgt", "TGT">>, <<"home depot", "HD">>, <<"hd", "HD">>,
    <<"nike", "NKE">>, <<"nke", "NKE">>, <<"disney", "DIS">>,
    <<"dis", "DIS">>, <<"netflix", "NFLX">>, <<"nflx", "NFLX">>,
    <<"exxon", "XOM">>, <<"xom", "XOM">>, <<"exxon mobil", "XOM">>,
    <<"chevron", "CVX">>, <<"cvx", "CVX">>, <<"boeing", "BA">>,
    <<"ba", "BA">>, <<"caterpillar", "CAT">>, <<"cat", "CAT">>,
    <<"general electric", "GE">>, <<"ge", "GE">>, <<"coinbase", "COIN">>,
    <<"coin", "COIN">>, <<"paypal", "PYPL">>, <<"pypl", "PYPL">>,
    <<"square", "SQ">>, <<"sq", "SQ">>, <<"block", "SQ">>,
    <<"spy", "SPY">>, <<"s&p 500", "SPY">>, <<"sp500", "SPY">>,
    <<"qqq", "QQQ">>, <<"nasdaq", "QQQ">>, <<"vti", "VTI">>,
    <<"total stock", "VTI">>
    >>

\* word in s: s has word as a substring
Contains(s, word) ==
    \E i \in 1..(Len(s) - Len(word) + 1) : SubSeq(s, i, i + Len(word) - 1) = word

\* handle_stock_analysis: the symbol of the first key of symbol_map, in
\* its order, that the lowered message contains; AAPL when there is none
ExtractSymbol(message) ==
    LET message_lower == Lower(message)
        hits == {i \in DOMAIN symbol_map : Contains(message_lower, symbol_map[i][1])}
    IN  IF hits = {} THEN "AAPL"
        ELSE symbol_map[CHOOSE i \in hits : \A j \in hits : i <= j][2]

\* the handler the keyword chain of process_message selects
Route(message) ==
    LET lower == Lower(message)
        \* any(word in message.lower() for word in words)
        AnyIn(words) == \E i \in DOMAIN words : Contains(lower, words[i])
    IN  IF AnyIn(stock_keywords) THEN "handle_stock_analysis"
        ELSE IF AnyIn(<<"portfolio", "optimize", "allocation">>)
        THEN "handle_portfolio_optimization"
        ELSE IF AnyIn(<<"correlation", "corr", "relationship">>)
        THEN "handle_correlation_analysis"
        ELSE IF AnyIn(<<"risk", "volatility", "var", "drawdown">>)
        THEN "handle_risk_analysis"
        ELSE "handle_general_advice"

\* process_message: the handler invoked (with the symbol it analyses, for
\* the stock handler); an exception that leaves the handler is logged and
\* answered with an error message
process_message(message, handler_raises) ==
    LET handler == Route(message)
    IN  [out |-> Return([handler |-> handler,
                         symbol |-> IF handler = "handle_stock_analysis"
                                    THEN ExtractSymbol(message) ELSE ""]),
         log |-> IF handler_raises THEN {"Error processing message"} ELSE {}]

\* the longest message on_message accepts
MAX_MESSAGE_LENGTH == 2000

\* the messages a user sends: up to MaxWords words, the empty message, a
\* blank one and one of 2048 characters
UserMessages ==
    LET Vocabulary == {"optimize", "portfolio", "risk", "correlation", "hello",
                       "Tesla", "my", "drawdown"}
        of[k \in 1..MaxWords] ==
            IF k = 1 THEN Vocabulary
            ELSE {m \o " " \o w : m \in of[k - 1], w \in Vocabulary}
        a == "xxxxxxxx"
        b == a \o a \o a \o a
        c == b \o b \o b \o b
        d == c \o c \o c \o c
    IN  UNION {of[k] : k \in 1..MaxWords} \cup {"", "   ", d \o d \o d \o d}

SessionIds == {"session_1", "session_2"}

\* on_message: an empty or blank message and a message of more than 2000
\* characters are answered with a warning; others go to process_message
main(user_message, handler_raises) ==
    IF user_message = "" \/ \A i \in 1..Len(user_message) : SubSeq(user_message, i, i) = " "
    THEN [out |-> Return([handler |-> "none", symbol |-> ""]),
          log |-> {"Please enter a valid message."}]
    ELSE IF Len(user_message) > MAX_MESSAGE_LENGTH
    THEN [out |-> Return([handler |-> "none", symbol |-> ""]),
          log |-> {"Message too long."}]
    ELSE process_message(user_message, handler_raises)

----------------------------------------------------------------------------
(* Inputs *)

SeriesVals == {R(-2, 1), R(-1, 1), R(-1, 2), Zero, R(1, 2)}

\* a return series has at least 2 observations
ShortSeries == UNION {[1..k -> SeriesVals] : k \in 2..MaxLen}

\* the 10-point series of the VaR scenario
Scenario10 ==
    <<R(-50, 1000), R(-30, 1000), R(-10, 1000), Zero, R(20, 1000),
      R(40, 1000), R(60, 1000), R(70, 1000), R(80, 1000), R(90, 1000)>>

VarSeries == ShortSeries \cup {Scenario10}

ConfLevels == {R(-1, 2), Zero, R(1, 20), R(1, 2), One, R(3, 2)}

MatVals == {R(-1, 1), Zero, R(1, 2)}

MatricesOver(vals) ==
    UNION {UNION {{Matrix(n, T, col) : col \in [1..n -> [1..T -> vals]]}
                  : T \in 2..MaxPeriods}
           : n \in 0..MaxAssets}

WVals == {Zero, R(1, 2), One}

\* weights for a matrix of n columns: None, arrays of n - 1, n or n + 1
\* entries, Series keyed by the columns, by one column less or one label more
WeightInputs(n) ==
    LET lens == {k \in {n - 1, n, n + 1} : k >= 0}
    IN  {WNone}
        \cup {WArray(w) : w \in UNION {[1..k -> WVals] : k \in lens}}
        \cup {WSeries(w) : w \in UNION {[1..k -> WVals] : k \in lens}}

OptVals == {R(-1, 2), R(1, 2)}

RiskTolerances == {Zero, R(1, 2)}

----------------------------------------------------------------------------
(* State machine *)

NoCall == [op |-> "none"]

Called(op, args, res) == [op |-> op, args |-> args, res |-> res]

\* RiskManager.__init__ / PortfolioAnalyzer.__init__
RISK_FREE_RATE == R(1, 50)

\* numpy seeds its process-wide generator from the operating system at import
OS_ENTROPY == "os_entropy"

\* the agent layer after construction: BaseAgent.__init__ (no hooks, no
\* runs, an empty history, agent_state IDLE) and AgentRunner.__init__
AgentsBuilt ==
    /\ clock = 0
    /\ lifecycle_hooks = [e \in {"on_start", "on_message", "on_tool_call",
                                  "on_error", "on_complete"} |-> <<>>]
    /\ runs = <<>>
    /\ conversation_history = <<>>
    /\ generators = <<>>
    /\ active_runs = <<>>
    /\ agent_state = [a \in {"stock", "portfolio", "risk"} |-> "idle"]
    /\ started = 0

Init ==
    /\ risk_free_rate = RISK_FREE_RATE
    /\ optimization_history = <<>>
    /\ HAS_SCIPY = TRUE
    /\ returns = Matrix(0, 2, <<>>)
    /\ np_random = OS_ENTROPY
    /\ sessions = {}
    /\ AgentsBuilt
    /\ call = NoCall

CalculateVar ==
    /\ call = NoCall
    /\ \E s \in VarSeries, c \in ConfLevels :
          call' = Called("RiskManager.calculate_var",
                         [returns |-> s, confidence_level |-> c],
                         RM_calculate_var(s, c))
    /\ UNCHANGED <<risk_free_rate, optimization_history, HAS_SCIPY, returns,
                   np_random, sessions>>
    /\ UNCHANGED agent_vars

CalculateCvar ==
    /\ call = NoCall
    /\ \E s \in VarSeries, c \in ConfLevels :
          call' = Called("RiskManager.calculate_cvar",
                         [returns |-> s, confidence_level |-> c],
                         RM_calculate_cvar(s, c))
    /\ UNCHANGED <<risk_free_rate, optimization_history, HAS_SCIPY, returns,
                   np_random, sessions>>
    /\ UNCHANGED agent_vars

CalculateSharpeRatio ==
    /\ call = NoCall
    /\ \E s \in ShortSeries :
          call' = Called("RiskManager.calculate_sharpe_ratio",
                         [returns |-> s],
                         RM_calculate_sharpe_ratio(s, risk_free_rate))
    /\ UNCHANGED <<risk_free_rate, optimization_history, HAS_SCIPY, returns,
                   np_random, sessions>>
    /\ UNCHANGED agent_vars

CalculateMaxDrawdown ==
    /\ call = NoCall
    /\ \E s \in ShortSeries :
          call' = Called("RiskManager.calculate_max_drawdown",
                         [returns |-> s],
                         RM_calculate_max_drawdown(s))
    /\ UNCHANGED <<risk_free_rate, optimization_history, HAS_SCIPY, returns,
                   np_random, sessions>>
    /\ UNCHANGED agent_vars

CalculateVarCvar ==
    /\ call = NoCall
    /\ \E s \in VarSeries, c \in ConfLevels :
          call' = Called("PortfolioAnalyzer.calculate_var_cvar",
                         [returns |-> s, confidence_level |-> c],
                         PA_calculate_var_cvar(s, c))
    /\ UNCHANGED <<risk_free_rate, optimization_history, HAS_SCIPY, returns,
                   np_random, sessions>>
    /\ UNCHANGED agent_vars

CalculatePortfolioMetrics ==
    /\ call = NoCall
    /\ \E m \in MatricesOver(MatVals) :
          \E w \in WeightInputs(m.n) :
             call' = Called("PortfolioAnalyzer.calculate_portfolio_metrics",
                            [returns |-> m, weights |-> w],
                            PA_calculate_portfolio_metrics(m, w, risk_free_rate))
    /\ UNCHANGED <<risk_free_rate, optimization_history, HAS_SCIPY, returns,
                   np_random, sessions>>
    /\ UNCHANGED agent_vars

\* the caller has taken the result of the call; calls are synchronous, so
\* the next call starts only then
TakeResult ==
    /\ call # NoCall
    /\ call' = NoCall
    /\ UNCHANGED <<risk_free_rate, optimization_history, HAS_SCIPY, returns,
                   np_random, sessions>>
    /\ UNCHANGED agent_vars

Next ==
    \/ TakeResult
    \/ CalculateVar
    \/ CalculateCvar
    \/ CalculateSharpeRatio
    \/ CalculateMaxDrawdown
    \/ CalculateVarCvar
    \/ CalculatePortfolioMetrics

Spec == Init /\ [][Next]_vars

(* The optimizers, called on the return matrix the caller holds *)

InitOpt ==
    /\ risk_free_rate = RISK_FREE_RATE
    /\ optimization_history = <<>>
    /\ HAS_SCIPY \in BOOLEAN
    /\ returns \in MatricesOver(OptVals)
    /\ np_random = OS_ENTROPY
    /\ sessions = {}
    /\ AgentsBuilt
    /\ call = NoCall

OptimizePortfolio ==
    /\ call = NoCall
    /\ \E method \in Methods :
          \E solver \in SolverOutcomes(returns, method) :
             call' = Called("PortfolioAnalyzer.optimize_portfolio",
                            [method |-> method, solver |-> solver],
                            PA_optimize_portfolio(returns, method, HAS_SCIPY, solver))
    /\ UNCHANGED <<risk_free_rate, optimization_history, HAS_SCIPY, returns,
                   np_random, sessions>>
    /\ UNCHANGED agent_vars

QuantumOptimize ==
    /\ call = NoCall
    /\ \E risk_tolerance \in RiskTolerances :
          \E samples \in {Samples(returns, risk_tolerance)} :
          \E res \in Q_quantum_optimize(returns, samples, NIter) :
             /\ Len(optimization_history) + Len(res.entry) <= MaxHistory
             /\ optimization_history' = optimization_history \o res.entry
             /\ call' = Called("QuantumPortfolioOptimizer.quantum_optimize",
                               [risk_tolerance |-> risk_tolerance],
                               res)
    /\ UNCHANGED <<risk_free_rate, HAS_SCIPY, returns, np_random, sessions>>
    /\ UNCHANGED agent_vars

EfficientFrontier ==
    /\ call = NoCall
    /\ \E num_portfolios \in 0..MaxPortfolios :
          \E weights_array \in [1..num_portfolios -> Dirichlet(returns.n)] :
             call' = Called("PortfolioAnalyzer.efficient_frontier",
                            [num_portfolios |-> num_portfolios],
                            PA_efficient_frontier(returns, risk_free_rate,
                                                  weights_array))
    /\ np_random' = SEEDED_42
    /\ UNCHANGED <<risk_free_rate, optimization_history, HAS_SCIPY, returns,
                   sessions>>
    /\ UNCHANGED agent_vars

NextOpt ==
    \/ TakeResult
    \/ OptimizePortfolio
    \/ QuantumOptimize
    \/ EfficientFrontier

SpecOpt == InitOpt /\ [][NextOpt]_vars

----------------------------------------------------------------------------
(* PortfolioAnalyzer.monte_carlo_simulation *)

MaxSims == 2         \* most simulated paths (num_simulations)
MaxHorizon == 2      \* most periods per path (time_horizon)

\* values a draw from a normal distribution with positive spread can take
SimVals == {R(-1, 2), R(1, 2)}

\* np.random.normal(mean, std, (S, H)): an S x H array of draws; every draw
\* is the mean itself when the spread is zero
NormalDraws(mean, var, S, H) ==
    IF var = Zero THEN {[s \in 1..S |-> [h \in 1..H |-> mean]]}
    ELSE [1..S -> [1..H -> SimVals]]

\* np.percentile(final_values, q) of the three reported percentiles: of an
\* empty array it is nan or an IndexError, depending on the numpy release
Percentiles(final_values) ==
    LET p(c) == Percentile(final_values, c).value
        report == [p5 |-> p(R(5, 100)), p50 |-> p(R(50, 100)), p95 |-> p(R(95, 100))]
    IN  IF final_values = <<>>
        THEN {Return(report), Raise("IndexError")}
        ELSE {Return(report)}

\* cumulative_returns[:, 0]: the value after the first period of each path
FinalValues_first_period(cumulative_returns, time_horizon) ==
    [s \in DOMAIN cumulative_returns |-> cumulative_returns[s][1]]

\* cumulative_returns[:, -1]: the last value of each path
FinalValues(cumulative_returns, time_horizon) ==
    [s \in DOMAIN cumulative_returns |-> cumulative_returns[s][time_horizon]]

\* the results monte_carlo_simulation can produce, over every draw
PA_monte_carlo_simulation(m, weights, num_simulations, time_horizon) ==
    IF Len(weights) # m.n
    THEN {[out |-> Raise("ValueError"), log |-> {}]}
    ELSE LET portfolio_mean ==
                 SumOver(1..m.n, [a \in 1..m.n |-> FMul(weights[a], Mean(Column(m, a)))])
             portfolio_var == FDiv(PortfolioVolSq(m, weights), FromInt(TRADING_DAYS))
         IN  IF time_horizon = 0
             THEN {[out |-> Raise("IndexError"), log |-> {}]}
             ELSE UNION {
                    LET cumulative_returns ==
                            [s \in 1..num_simulations |-> CumProd(simulated_returns[s])]
                        final_values == FinalValues(cumulative_returns, time_horizon)
                    IN  {[out |-> IF p.kind = "raise" THEN p
                                  ELSE Return([simulations |-> cumulative_returns,
                                               final_values |-> final_values,
                                               percentiles |-> p.value]),
                          log |-> {}] : p \in Percentiles(final_values)}
                    : simulated_returns \in
                          NormalDraws(portfolio_mean, portfolio_var,
                                      num_simulations, time_horizon)}

----------------------------------------------------------------------------
(* PortfolioAnalyzer on small portfolios: the metrics of two-asset matrices *)

\* the two-asset scenario: A = [0.01, -0.02, 0.03, 0.00],
\* B = [-0.01, 0.02, 0.01, 0.01]
ScenarioAB ==
    Matrix(2, 4, <<<<R(1, 100), R(-2, 100), R(3, 100), Zero>>,
                   <<R(-1, 100), R(2, 100), R(1, 100), R(1, 100)>>>>)

PairMatrices ==
    UNION {{Matrix(2, T, col) : col \in [1..2 -> [1..T -> {R(-1, 2), R(1, 2)}]]}
           : T \in 2..MaxPeriods}
    \cup {ScenarioAB}

\* weights for a two-asset matrix: None, or one weight per asset as a
\* positional array or as a Series keyed by the columns
PairWeights ==
    {WNone}
    \cup {WArray(w) : w \in [1..2 -> WVals]}
    \cup {WSeries(w) : w \in [1..2 -> WVals]}

InitSim ==
    /\ risk_free_rate = RISK_FREE_RATE
    /\ optimization_history = <<>>
    /\ HAS_SCIPY = TRUE
    /\ returns = Matrix(0, 2, <<>>)
    /\ np_random = OS_ENTROPY
    /\ sessions = {}
    /\ AgentsBuilt
    /\ call = NoCall

CalculatePairMetrics ==
    /\ call = NoCall
    /\ \E m \in PairMatrices, w \in PairWeights :
          call' = Called("PortfolioAnalyzer.calculate_portfolio_metrics",
                         [returns |-> m, weights |-> w],
                         PA_calculate_portfolio_metrics(m, w, risk_free_rate))
    /\ UNCHANGED <<risk_free_rate, optimization_history, HAS_SCIPY, returns,
                   np_random, sessions>>
    /\ UNCHANGED agent_vars

\* the two-asset matrices and the one-asset matrices of their first columns
SmallMatrices ==
    PairMatrices \cup {Matrix(1, m.T, <<m.col[1]>>) : m \in PairMatrices}

OptimizeSmallPortfolio ==
    /\ call = NoCall
    /\ \E m \in SmallMatrices, method \in Methods :
          \E solver \in SolverOutcomes(m, method) :
             call' = Called("PortfolioAnalyzer.optimize_portfolio",
                            [returns |-> m, method |-> method, solver |-> solver],
                            PA_optimize_portfolio(m, method, HAS_SCIPY, solver))
    /\ UNCHANGED <<risk_free_rate, optimization_history, HAS_SCIPY, returns,
                   np_random, sessions>>
    /\ UNCHANGED agent_vars

\* the matrices simulated: no asset, one asset with constant returns, and
\* the two-asset scenario
SimMatrices == {Matrix(0, 2, <<>>), Matrix(1, 2, <<<<Zero, Zero>>>>), ScenarioAB}

\* weight arrays for n assets: equal weights, and an array one entry too long
SimWeights(n) == {EqualWeights(n), [i \in 1..(n + 1) |-> One]}

MonteCarloSimulation ==
    /\ call = NoCall
    /\ \E m \in SimMatrices :
          \E weights \in SimWeights(m.n),
             num_simulations \in 0..MaxSims, time_horizon \in 0..MaxHorizon :
             \E res \in PA_monte_carlo_simulation(m, weights, num_simulations,
                                                  time_horizon) :
                call' = Called("PortfolioAnalyzer.monte_carlo_simulation",
                               [returns |-> m, weights |-> weights,
                                num_simulations |-> num_simulations,
                                time_horizon |-> time_horizon],
                               res)
    /\ UNCHANGED <<risk_free_rate, optimization_history, HAS_SCIPY, returns,
                   np_random, sessions>>
    /\ UNCHANGED agent_vars

NextSim ==
    \/ TakeResult
    \/ CalculatePairMetrics
    \/ OptimizeSmallPortfolio
    \/ MonteCarloSimulation

SpecSim == InitSim /\ [][NextSim]_vars

(* The chat application and the market-data fetchers *)

InitApp ==
    /\ risk_free_rate = RISK_FREE_RATE
    /\ optimization_history = <<>>
    /\ HAS_SCIPY = TRUE
    /\ returns = Matrix(0, 2, <<>>)
    /\ np_random = OS_ENTROPY
    /\ sessions = {}
    /\ AgentsBuilt
    /\ call = NoCall

\* on_chat_start: the session of the chat is created
OnChatStart ==
    /\ call = NoCall
    /\ \E session_id \in SessionIds :
          /\ sessions' = sessions \cup {session_id}
          /\ call' = Called("start", [session_id |-> session_id],
                            [out |-> Return("welcome"), log |-> {}])
    /\ UNCHANGED <<risk_free_rate, optimization_history, HAS_SCIPY, returns, np_random>>
    /\ UNCHANGED agent_vars

\* a demo button: process_message on the message of the button, in the
\* session of the chat (get_session creates a missing session)
OnDemo(name, message) ==
    /\ call = NoCall
    /\ \E session_id \in SessionIds, handler_raises \in BOOLEAN :
          /\ sessions' = sessions \cup {session_id}
          /\ call' = Called(name, [session_id |-> session_id, message |-> message],
                            process_message(message, handler_raises))
    /\ UNCHANGED <<risk_free_rate, optimization_history, HAS_SCIPY, returns, np_random>>
    /\ UNCHANGED agent_vars

OnDemoAapl ==
    OnDemo("on_demo_aapl", "Show me a demo analysis of Apple stock (AAPL)")

OnDemoPortfolio ==
    OnDemo("on_demo_portfolio",
           "Show me a demo of portfolio optimization with sample tech stocks")

OnDemoSentiment ==
    OnDemo("on_demo_sentiment", "Show me a demo of market sentiment analysis")

OnDemoRisk ==
    OnDemo("on_demo_risk", "Show me a demo of risk analysis for a sample portfolio")

\* on_message
OnMessage ==
    /\ call = NoCall
    /\ \E session_id \in SessionIds, user_message \in UserMessages,
          handler_raises \in BOOLEAN :
          LET res == main(user_message, handler_raises)
          IN  /\ sessions' = IF res.out.value.handler = "none" THEN sessions
                             ELSE sessions \cup {session_id}
              /\ call' = Called("main", [session_id |-> session_id,
                                         message |-> user_message], res)
    /\ UNCHANGED <<risk_free_rate, optimization_history, HAS_SCIPY, returns, np_random>>
    /\ UNCHANGED agent_vars

DataFetcherGetStockData ==
    /\ call = NoCall
    /\ \E symbol \in KnownSymbols \cup {"ZZZZ"} :
          \E provider \in ProviderOutcomes(symbol) :
             call' = Called("DataFetcher.get_stock_data",
                            [symbol |-> symbol, provider |-> provider],
                            DF_get_stock_data(symbol, provider))
    /\ UNCHANGED <<risk_free_rate, optimization_history, HAS_SCIPY, returns,
                   np_random, sessions>>
    /\ UNCHANGED agent_vars

FinancialToolsGetStockData ==
    /\ call = NoCall
    /\ \E symbol \in KnownSymbols \cup {"ZZZZ"} :
          \E provider \in ProviderOutcomes(symbol) :
             call' = Called("FinancialTools.get_stock_data",
                            [symbol |-> symbol, provider |-> provider],
                            FT_get_stock_data(symbol, provider))
    /\ UNCHANGED <<risk_free_rate, optimization_history, HAS_SCIPY, returns,
                   np_random, sessions>>
    /\ UNCHANGED agent_vars

\* handle_stock_analysis on a message that is one key of symbol_map (the
\* name or ticker of one supported company): the symbol analysed, and
\* whether live data or the mock fallback fed the report
HandleStockAnalysis ==
    /\ call = NoCall
    /\ \E i \in DOMAIN symbol_map, data \in {"live", "mock"} :
          call' = Called("handle_stock_analysis",
                         [message |-> symbol_map[i][1], names |-> symbol_map[i][2]],
                         [out |-> Return([handler |-> "handle_stock_analysis",
                                          symbol |-> ExtractSymbol(symbol_map[i][1]),
                                          data |-> data]),
                          log |-> IF data = "mock"
                                  THEN {"Could not fetch real data"} ELSE {}])
    /\ UNCHANGED <<risk_free_rate, optimization_history, HAS_SCIPY, returns,
                   np_random, sessions>>
    /\ UNCHANGED agent_vars

NextApp ==
    \/ TakeResult
    \/ OnChatStart
    \/ OnDemoAapl
    \/ OnDemoPortfolio
    \/ OnDemoSentiment
    \/ OnDemoRisk
    \/ OnMessage
    \/ DataFetcherGetStockData
    \/ FinancialToolsGetStockData
    \/ HandleStockAnalysis

SpecApp == InitApp /\ [][NextApp]_vars

----------------------------------------------------------------------------
(* The base agent: src/agents/base_agent.py *)

MaxCalls == 2        \* most generator calls started
MaxClock == 1        \* the last second the clock reaches
MaxHooks == 2        \* most lifecycle hooks registered

\* the longest input Guardrails.validate_input accepts
MAX_INPUT_LENGTH == 5000

\* a message that is not a str (an int): len() of it is a TypeError
NOT_A_STR == "int(5)"

\* str(n) of a natural number
RECURSIVE Str(_)
Str(n) ==
    IF n < 10 THEN SubSeq("0123456789", n + 1, n + 1)
    ELSE Str(n \div 10) \o SubSeq("0123456789", (n % 10) + 1, (n % 10) + 1)

Guardrails_validate_input_accepting(user_input) == Return(<<TRUE, "Input validated">>)

\* Guardrails.validate_input: (is_valid, message)
Guardrails_validate_input(user_input) ==
    IF user_input = NOT_A_STR THEN Raise("TypeError")
    ELSE IF \A i \in 1..Len(user_input) : SubSeq(user_input, i, i) = " "
    THEN Return(<<FALSE, "Empty input not allowed">>)
    ELSE IF Len(user_input) > MAX_INPUT_LENGTH
    THEN Return(<<FALSE, "Input too long (max 5000 characters)">>)
    ELSE IF \E pattern \in {"hack", "exploit", "malware", "virus"} :
                Contains(Lower(user_input), pattern)
    THEN Return(<<FALSE, "Potentially harmful content detected">>)
    ELSE Return(<<TRUE, "Input validated">>)

\* the hooks of an event called one after the other until one raises,
\* whose exception leaves the loop
trigger_lifecycle_hook_unguarded(hooks, event) ==
    LET callbacks == hooks[event]
        failing == {i \in DOMAIN callbacks : callbacks[i] = "raises"}
        last == IF failing = {} THEN Len(callbacks)
                ELSE CHOOSE i \in failing : \A j \in failing : i <= j
    IN  [called |-> [i \in 1..last |-> [event |-> event, hook |-> i]],
         raised |-> failing # {}]

\* BaseAgent._trigger_lifecycle_hook: every hook of the event is called, in
\* registration order; an exception of a hook is logged and goes no further
trigger_lifecycle_hook(hooks, event) ==
    [called |-> [i \in DOMAIN hooks[event] |-> [event |-> event, hook |-> i]],
     raised |-> FALSE]

\* the run id process_message makes when none is passed:
\* f"run_{datetime.now().strftime('%Y%m%d_%H%M%S')}", one per clock second
RunIdAt(now) == "run_" \o Str(now)

\* _stream_response: the parts it yields
response_parts ==
    <<"Processing your request...", "Analyzing financial data...",
      "Generating insights...", "Finalizing response...">>

\* the except clause of process_message: the run (if it exists) is FAILED,
\* the on_error hooks are triggered, the error is yielded
PM_except(g, hooks, rs, history) ==
    [g |-> [g EXCEPT !.pc = "error",
                     !.chunks = @ \o <<"Error">>,
                     !.hooks = @ \o trigger_lifecycle_hook(hooks, "on_error").called],
     runs |-> IF g.run_id \in DOMAIN rs THEN [rs EXCEPT ![g.run_id] = "failed"] ELSE rs,
     history |-> history]

\* process_message up to its first yield
PM_start(message, now, hooks, rs, history) ==
    LET g0 == [op |-> "BaseAgent.process_message", message |-> message,
               run_id |-> "None", pc |-> "created", part |-> 0,
               chunks |-> <<>>, hooks |-> <<>>]
        on_start == trigger_lifecycle_hook(hooks, "on_start")
        g1 == [g0 EXCEPT !.hooks = on_start.called]
        run_id == RunIdAt(now)
        g2 == [g1 EXCEPT !.run_id = run_id]
        \* create_run, then update_run_state(IN_PROGRESS)
        rs2 == [r \in DOMAIN rs \cup {run_id} |->
                   IF r = run_id THEN "in_progress" ELSE rs[r]]
        valid == Guardrails_validate_input(message)
        history3 == Append(history, [role |-> "user", content |-> message])
        on_message == trigger_lifecycle_hook(hooks, "on_message")
        g3 == [g2 EXCEPT !.hooks = @ \o on_message.called]
    IN  IF on_start.raised THEN PM_except(g1, hooks, rs, history)
        ELSE IF valid.kind = "raise" THEN PM_except(g2, hooks, rs2, history)
        ELSE IF ~valid.value[1]
        THEN [g |-> [g2 EXCEPT !.pc = "rejected",
                               !.chunks = <<"Input validation failed: "
                                            \o valid.value[2]>>],
              runs |-> rs2, history |-> history]
        ELSE IF on_message.raised THEN PM_except(g3, hooks, rs2, history3)
        ELSE [g |-> [g3 EXCEPT !.pc = "streaming", !.part = 1,
                               !.chunks = <<response_parts[1]>>],
              runs |-> rs2, history |-> history3]

\* process_message from one yield to the next, or to its end (pc "done")
PM_resume(g, hooks, rs, history) ==
    IF g.pc = "streaming" /\ g.part < Len(response_parts)
    THEN [g |-> [g EXCEPT !.part = @ + 1,
                          !.chunks = @ \o <<response_parts[g.part + 1]>>],
          runs |-> rs, history |-> history]
    ELSE IF g.pc = "streaming"
    THEN LET rs2 == IF g.run_id \in DOMAIN rs
                    THEN [rs EXCEPT ![g.run_id] = "completed"] ELSE rs
             on_complete == trigger_lifecycle_hook(hooks, "on_complete")
             g2 == [g EXCEPT !.hooks = @ \o on_complete.called]
         IN  IF on_complete.raised THEN PM_except(g2, hooks, rs2, history)
             ELSE [g |-> [g2 EXCEPT !.pc = "done"], runs |-> rs2, history |-> history]
    ELSE [g |-> [g EXCEPT !.pc = "done"], runs |-> rs, history |-> history]

\* the messages passed to process_message: one that is valid, the empty
\* and a blank one, two with a harmful pattern, one of 5120 characters and
\* one that is not a str
AgentMessages ==
    LET a == "xxxxxxxx"
        b == a \o a \o a \o a
        c == b \o b \o b \o b
        d == c \o c \o c \o c
    IN  {"hello", "", "   ", "Hack the market", "antivirus makers", NOT_A_STR,
         d \o d \o d \o d \o d \o d \o d \o d \o d \o d}

\* BaseAgent.add_lifecycle_hook, between two calls: a callback that returns
\* or one that raises is appended to the hooks of a known event
AddLifecycleHook ==
    /\ call = NoCall
    /\ generators = <<>>
    /\ Len(lifecycle_hooks["on_start"]) + Len(lifecycle_hooks["on_message"])
          + Len(lifecycle_hooks["on_error"]) + Len(lifecycle_hooks["on_complete"])
          < MaxHooks
    /\ \E event \in {"on_start", "on_message", "on_error", "on_complete", "on_finish"},
          callback \in {"returns", "raises"} :
          lifecycle_hooks' =
              IF event \in DOMAIN lifecycle_hooks
              THEN [lifecycle_hooks EXCEPT ![event] = Append(@, callback)]
              ELSE lifecycle_hooks
    /\ UNCHANGED <<risk_free_rate, optimization_history, HAS_SCIPY, returns,
                   np_random, sessions, call>>
    /\ UNCHANGED <<clock, runs, conversation_history, generators, active_runs,
                   agent_state, started>>

\* a second passes
Tick ==
    /\ call = NoCall
    /\ clock < MaxClock
    /\ clock' = clock + 1
    /\ UNCHANGED <<risk_free_rate, optimization_history, HAS_SCIPY, returns,
                   np_random, sessions, call>>
    /\ UNCHANGED <<lifecycle_hooks, runs, conversation_history, generators,
                   active_runs, agent_state, started>>

\* process_message(message) is called without a run id and runs to its
\* first yield, while fewer than `live` generators are in flight
StartProcessMessage(live) ==
    /\ call = NoCall
    /\ started < MaxCalls
    /\ Cardinality(DOMAIN generators) < live
    /\ \E message \in AgentMessages :
          LET s == PM_start(message, clock, lifecycle_hooks, runs, conversation_history)
          IN  /\ generators' = generators @@ ((started + 1) :> s.g)
              /\ runs' = s.runs
              /\ conversation_history' = s.history
    /\ started' = started + 1
    /\ UNCHANGED <<risk_free_rate, optimization_history, HAS_SCIPY, returns,
                   np_random, sessions, call>>
    /\ UNCHANGED <<clock, lifecycle_hooks, active_runs, agent_state>>

\* the consumer asks a process_message generator for its next chunk; an
\* exhausted generator is dropped and what it did is the result of the call
ResumeProcessMessage ==
    /\ call = NoCall
    /\ \E k \in DOMAIN generators :
          /\ generators[k].op = "BaseAgent.process_message"
          /\ LET g == generators[k]
                 s == PM_resume(g, lifecycle_hooks, runs, conversation_history)
             IN  /\ runs' = s.runs
                 /\ conversation_history' = s.history
                 /\ IF s.g.pc = "done"
                    THEN /\ generators' = [i \in DOMAIN generators \ {k} |-> generators[i]]
                         /\ call' = Called(g.op, [message |-> g.message],
                                           [out |-> Return([run_id |-> g.run_id,
                                                            chunks |-> s.g.chunks,
                                                            hooks |-> s.g.hooks,
                                                            ended |-> g.pc]),
                                            log |-> {}])
                    ELSE /\ generators' = [generators EXCEPT ![k] = s.g]
                         /\ call' = call
    /\ UNCHANGED <<risk_free_rate, optimization_history, HAS_SCIPY, returns,
                   np_random, sessions>>
    /\ UNCHANGED <<clock, lifecycle_hooks, active_runs, agent_state, started>>

\* calls of process_message that interleave, on an agent without hooks
NextAgent ==
    \/ TakeResult
    \/ Tick
    \/ StartProcessMessage(MaxCalls)
    \/ ResumeProcessMessage

SpecAgent == Init /\ [][NextAgent]_vars

\* calls of process_message one after the other and within one second of
\* the clock, so that they share their run id, on an agent with hooks
NextHooks ==
    \/ TakeResult
    \/ AddLifecycleHook
    \/ StartProcessMessage(1)
    \/ ResumeProcessMessage

SpecHooks == Init /\ [][NextHooks]_vars

----------------------------------------------------------------------------
(* The specialized agents and the runner: src/agents/specialized_agents.py *)

\* some of ProviderOutcomes(symbol): an exception, no rows, or a two-day
\* history for a symbol the provider knows (+3 % for AAPL, -11.3 % for the
\* others)
Quotes(symbol) ==
    {[kind |-> "exception"], [kind |-> "history", Close |-> <<>>]}
    \cup (IF symbol \in KnownSymbols
          THEN {[kind |-> "history",
                 Close |-> IF symbol = "AAPL"
                           THEN <<FromInt(100), FromInt(103)>>
                           ELSE <<FromInt(106), FromInt(94)>>]}
          ELSE {})

GuardedCall_unhandled(body) ==
    [state |-> IF body.kind = "raise" THEN "running" ELSE "completed", out |-> body]

\* the try / except around the body of analyze_stock, analyze_portfolio
\* and assess_risk: agent_state is RUNNING, then COMPLETED when the body
\* returns; an exception sets ERROR and is raised again
GuardedCall(body) ==
    [state |-> IF body.kind = "raise" THEN "error" ELSE "completed", out |-> body]

\* StockAnalysisAgent.analyze_stock
SA_analyze_stock(symbol, provider) ==
    LET stock_data == FT_get_stock_data(symbol, provider).out
        change == stock_data.value.price_change
        momentum == IF FLt(FromInt(5), change) THEN "Strong upward momentum"
                    ELSE IF FLt(FromInt(2), change) THEN "Positive momentum"
                    ELSE IF FLt(change, FromInt(-5)) THEN "Significant decline"
                    ELSE IF FLt(change, FromInt(-2)) THEN "Negative momentum"
                    ELSE "Sideways movement"
    IN  GuardedCall(IF stock_data.kind = "raise" THEN stock_data
                    ELSE Return([agent_id |-> "stock_analyst",
                                 response_type |-> "stock_analysis",
                                 content |-> momentum,
                                 structured_data |-> stock_data.value,
                                 confidence |-> stock_data.value.confidence]))

\* PortfolioAgent.analyze_portfolio on FinancialTools.analyze_portfolio;
\* holdings are (symbol, shares) in the order of the dict, providers[i] is
\* what the provider does for holding i; risk_score = min(10, std / 2) is
\* kept as the root of min(100, variance / 4)
PoA_analyze_portfolio(holdings, providers) ==
    LET n == Len(holdings)
        data == [i \in 1..n |-> FT_get_stock_data(holdings[i][1], providers[i]).out]
        failing == {i \in 1..n : data[i].kind = "raise"}
        changes == [i \in 1..n |-> data[i].value.price_change]
        total_value == SeqSum([i \in 1..n |-> FMul(data[i].value.current_price,
                                                   FromInt(holdings[i][2]))])
        avg_daily_change == IF n = 0 THEN Zero ELSE Mean(changes)
        variance == IF n > 1
                    THEN Mean([i \in 1..n |->
                                  FMul(FSub(changes[i], avg_daily_change),
                                       FSub(changes[i], avg_daily_change))])
                    ELSE Zero
        quarter == FDiv(variance, FromInt(4))
        risk_score == Root(1, IF IsFinite(quarter) /\ FLt(quarter, FromInt(100))
                              THEN quarter ELSE FromInt(100))
        diversification_score == IF n < 10 THEN R(n, 10) ELSE One
        recommendations ==
            (IF n < 5 THEN {"Consider diversifying with more holdings"} ELSE {})
            \cup (IF FLt(FromInt(49), risk_score.sq)
                  THEN {"Portfolio has high volatility"} ELSE {})
            \cup (IF FLt(avg_daily_change, FromInt(-2))
                  THEN {"Portfolio showing negative momentum"} ELSE {})
    IN  GuardedCall(
            IF failing # {}
            THEN data[CHOOSE i \in failing : \A j \in failing : i <= j]
            ELSE Return([agent_id |-> "portfolio_manager",
                         response_type |-> "portfolio_analysis",
                         content |-> recommendations,
                         structured_data |->
                             [total_value |-> total_value,
                              daily_change |-> avg_daily_change,
                              risk_score |-> risk_score,
                              diversification_score |-> diversification_score],
                         confidence |-> R(85, 100)]))

\* RiskAgent.assess_risk on a dict that may lack its keys; a risk score
\* that is not a number cannot be compared with 7
RA_assess_risk(portfolio_data) ==
    LET risk_score == IF "risk_score" \in DOMAIN portfolio_data
                      THEN portfolio_data.risk_score ELSE Root(1, FromInt(25))
        diversification == IF "diversification_score" \in DOMAIN portfolio_data
                           THEN portfolio_data.diversification_score ELSE R(1, 2)
        level == IF FLt(FromInt(49), risk_score.sq) THEN "HIGH"
                 ELSE IF FLt(FromInt(16), risk_score.sq) THEN "MEDIUM"
                 ELSE "LOW"
    IN  GuardedCall(
            IF "sq" \notin DOMAIN risk_score THEN Raise("TypeError")
            ELSE Return([agent_id |-> "risk_manager",
                         response_type |-> "risk_assessment",
                         content |-> <<level, FLt(diversification, R(1, 2))>>,
                         structured_data |-> [risk_score |-> risk_score,
                                              diversification |-> diversification],
                         confidence |-> R(9, 10)]))

\* route_request: the first word of message.upper().split() of at most 5
\* characters, all of them letters; "" when there is none
SymbolOf(message) ==
    LET s == Upper(message)
        ch(i) == SubSeq(s, i, i)
        starts == {i \in 1..Len(s) : ch(i) # " " /\ (i = 1 \/ ch(i - 1) = " ")}
        end(i) == CHOOSE j \in i..Len(s) :
                     /\ \A k \in i..j : ch(k) # " "
                     /\ (j = Len(s) \/ ch(j + 1) = " ")
        isalpha(i) == \A k \in i..end(i) :
                         \E l \in 1..26 : SubSeq("ABCDEFGHIJKLMNOPQRSTUVWXYZ", l, l) = ch(k)
        symbols == {i \in starts : end(i) - i + 1 <= 5 /\ isalpha(i)}
    IN  IF symbols = {} THEN ""
        ELSE LET i == CHOOSE i \in symbols : \A j \in symbols : i <= j
             IN  SubSeq(s, i, end(i))

RunnerRunId_uncounted(agent_id, n) == "run_" \o agent_id

\* the run id of execute_agent: f"run_{agent_id}_{len(self.active_runs)}"
RunnerRunId(agent_id, n) == "run_" \o agent_id \o "_" \o Str(n)

\* execute_agent up to the first yield of route_request: the run is
\* registered as running and the request is routed by its keywords
EA_start(agent_id, message, registered) ==
    LET run_id == RunnerRunId(agent_id, Cardinality(DOMAIN registered))
        message_lower == Lower(message)
        any(words) == \E w \in words : Contains(message_lower, w)
        first == IF any({"stock", "ticker", "symbol", "price"})
                 THEN <<"Routing to Stock Analysis Agent", "stock">>
                 ELSE IF any({"portfolio", "holdings", "allocation"})
                 THEN <<"Routing to Portfolio Management Agent", "portfolio">>
                 ELSE IF any({"risk", "volatility", "safety"})
                 THEN <<"Routing to Risk Management Agent", "risk">>
                 ELSE <<"AI Finance Advisor", "last">>
    IN  [g |-> [op |-> "AgentRunner.execute_agent", agent_id |-> agent_id,
                message |-> message, run_id |-> run_id, pc |-> first[2],
                chunks |-> <<first[1]>>, raised |-> FALSE,
                \* the mock risk data of the risk route
                data |-> [risk_score |-> Root(1, R(169, 4)),
                          diversification_score |-> R(7, 10)]],
         active_runs |-> [r \in DOMAIN registered \cup {run_id} |->
                             IF r = run_id
                             THEN [agent_id |-> agent_id, status |-> "running",
                                   user_message |-> message]
                             ELSE registered[r]]]

\* a call of execute_agent starts, with at most one other call in flight:
\* calls interleave at their yields
ExecuteAgentStart ==
    /\ call = NoCall
    /\ started < MaxCalls
    /\ Cardinality(DOMAIN generators) < 2
    /\ \E agent_id \in {"master", "master_1"},
          message \in {"AAPL stock", "ticker 123", "my portfolio",
                       "Volatility", "hello"} :
          LET s == EA_start(agent_id, message, active_runs)
          IN  /\ generators' = generators @@ ((started + 1) :> s.g)
              /\ active_runs' = s.active_runs
    /\ started' = started + 1
    /\ UNCHANGED <<risk_free_rate, optimization_history, HAS_SCIPY, returns,
                   np_random, sessions, call>>
    /\ UNCHANGED <<clock, lifecycle_hooks, runs, conversation_history, agent_state>>

\* the consumer asks an execute_agent generator for its next chunk:
\* route_request runs to its next yield, every exception of a specialized
\* agent ends in its except clause, which yields an error message; once
\* route_request is exhausted the run is marked completed
ExecuteAgentResume ==
    /\ call = NoCall
    /\ \E k \in DOMAIN generators :
          /\ generators[k].op = "AgentRunner.execute_agent"
          /\ LET g == generators[k]
                 demo_portfolio == <<<<"AAPL", 10>>, <<"GOOGL", 5>>,
                                     <<"MSFT", 8>>, <<"TSLA", 3>>>>
                 symbol == SymbolOf(g.message)
                 yield(chunk, pc) ==
                     generators' = [generators EXCEPT ![k] =
                         [g EXCEPT !.chunks = Append(@, chunk), !.pc = pc]]
                 answer(agent, r, pc) ==
                     /\ agent_state' = [agent_state EXCEPT ![agent] = r.state]
                     /\ IF r.out.kind = "raise"
                        THEN generators' = [generators EXCEPT ![k] =
                                 [g EXCEPT !.chunks = Append(@, "Error processing request"),
                                           !.pc = "last", !.raised = TRUE]]
                        ELSE generators' = [generators EXCEPT ![k] =
                                 [g EXCEPT !.chunks = Append(@, r.out.value.response_type),
                                           !.pc = pc,
                                           !.data = IF pc = "handoff"
                                                    THEN r.out.value.structured_data
                                                    ELSE @]]
             IN  CASE g.pc = "stock" /\ symbol = "" ->
                        /\ yield("Please provide a valid stock symbol", "last")
                        /\ UNCHANGED <<agent_state, active_runs, call>>
                   [] g.pc = "stock" /\ symbol # "" ->
                        /\ \E provider \in Quotes(symbol) :
                              answer("stock", SA_analyze_stock(symbol, provider), "last")
                        /\ UNCHANGED <<active_runs, call>>
                   [] g.pc = "portfolio" ->
                        /\ \E providers \in [DOMAIN demo_portfolio ->
                                                  UNION {Quotes(demo_portfolio[i][1]) :
                                                            i \in DOMAIN demo_portfolio}] :
                              /\ \A i \in DOMAIN demo_portfolio :
                                    providers[i] \in Quotes(demo_portfolio[i][1])
                              /\ answer("portfolio",
                                        PoA_analyze_portfolio(demo_portfolio, providers),
                                        "handoff")
                        /\ UNCHANGED <<active_runs, call>>
                   [] g.pc = "handoff" ->
                        /\ yield("Handing off to Risk Management Agent", "risk")
                        /\ UNCHANGED <<agent_state, active_runs, call>>
                   [] g.pc = "risk" ->
                        /\ answer("risk", RA_assess_risk(g.data), "last")
                        /\ UNCHANGED <<active_runs, call>>
                   [] g.pc = "last" ->
                        /\ active_runs' = [active_runs EXCEPT
                                               ![g.run_id].status = "completed"]
                        /\ generators' = [i \in DOMAIN generators \ {k} |-> generators[i]]
                        /\ call' = Called(g.op,
                                          [agent_id |-> g.agent_id, message |-> g.message],
                                          [out |-> Return([run_id |-> g.run_id,
                                                           chunks |-> g.chunks,
                                                           status |-> active_runs'[g.run_id].status,
                                                           raised |-> g.raised]),
                                           log |-> {}])
                        /\ UNCHANGED agent_state
    /\ UNCHANGED <<risk_free_rate, optimization_history, HAS_SCIPY, returns,
                   np_random, sessions>>
    /\ UNCHANGED <<clock, lifecycle_hooks, runs, conversation_history, started>>

\* a direct call of analyze_stock on the stock agent of the master agent
AnalyzeStock ==
    /\ call = NoCall
    /\ \E symbol \in KnownSymbols \cup {"ZZZZ", ""} :
          \E provider \in ProviderOutcomes(symbol) :
              LET r == SA_analyze_stock(symbol, provider)
              IN  /\ agent_state' = [agent_state EXCEPT !["stock"] = r.state]
                  /\ call' = Called("StockAnalysisAgent.analyze_stock",
                                    [symbol |-> symbol, provider |-> provider],
                                    [out |-> r.out, log |-> {}])
    /\ UNCHANGED <<risk_free_rate, optimization_history, HAS_SCIPY, returns,
                   np_random, sessions>>
    /\ UNCHANGED <<clock, lifecycle_hooks, runs, conversation_history, generators,
                   active_runs, started>>

\* a direct call of analyze_portfolio on the portfolio agent
AnalyzePortfolio ==
    /\ call = NoCall
    /\ \E holdings \in {<<>>, <<<<"AAPL", 10>>>>, <<<<"AAPL", 10>>, <<"nvda", 5>>>>,
                         <<<<"ZZZZ", 1>>, <<"AAPL", 10>>>>} :
          \E providers \in [DOMAIN holdings ->
                                UNION {Quotes(holdings[i][1]) : i \in DOMAIN holdings}] :
              LET r == PoA_analyze_portfolio(holdings, providers)
              IN  /\ \A i \in DOMAIN holdings : providers[i] \in Quotes(holdings[i][1])
                  /\ agent_state' = [agent_state EXCEPT !["portfolio"] = r.state]
                  /\ call' = Called("PortfolioAgent.analyze_portfolio",
                                    [holdings |-> holdings, providers |-> providers],
                                    [out |-> r.out, log |-> {}])
    /\ UNCHANGED <<risk_free_rate, optimization_history, HAS_SCIPY, returns,
                   np_random, sessions>>
    /\ UNCHANGED <<clock, lifecycle_hooks, runs, conversation_history, generators,
                   active_runs, started>>

\* a direct call of assess_risk on the risk agent
AssessRisk ==
    /\ call = NoCall
    /\ \E portfolio_data \in
            {<<>>,
             [risk_score |-> Root(1, FromInt(64)), diversification_score |-> R(3, 10)],
             [risk_score |-> Root(1, R(169, 4)), diversification_score |-> R(7, 10)],
             [risk_score |-> Root(1, FromInt(9)), diversification_score |-> R(1, 2)],
             [risk_score |-> [str |-> "high"], diversification_score |-> R(1, 2)]} :
          LET r == RA_assess_risk(portfolio_data)
          IN  /\ agent_state' = [agent_state EXCEPT !["risk"] = r.state]
              /\ call' = Called("RiskAgent.assess_risk",
                                [portfolio_data |-> portfolio_data],
                                [out |-> r.out, log |-> {}])
    /\ UNCHANGED <<risk_free_rate, optimization_history, HAS_SCIPY, returns,
                   np_random, sessions>>
    /\ UNCHANGED <<clock, lifecycle_hooks, runs, conversation_history, generators,
                   active_runs, started>>

\* calls of execute_agent that interleave at their yields
NextRunner ==
    \/ TakeResult
    \/ ExecuteAgentStart
    \/ ExecuteAgentResume

SpecRunner == Init /\ [][NextRunner]_vars

\* direct calls of the specialized agents, one after the other
NextSpecialized ==
    \/ TakeResult
    \/ AnalyzeStock
    \/ AnalyzePortfolio
    \/ AssessRisk

SpecSpecialized == Init /\ [][NextSpecialized]_vars

----------------------------------------------------------------------------
(* Properties *)

OP_VAR == "RiskManager.calculate_var"
OP_CVAR == "RiskManager.calculate_cvar"
OP_SHARPE == "RiskManager.calculate_sharpe_ratio"
OP_DRAWDOWN == "RiskManager.calculate_max_drawdown"
OP_VAR_CVAR == "PortfolioAnalyzer.calculate_var_cvar"
OP_METRICS == "PortfolioAnalyzer.calculate_portfolio_metrics"
OP_OPTIMIZE == "PortfolioAnalyzer.optimize_portfolio"
OP_QUANTUM == "QuantumPortfolioOptimizer.quantum_optimize"

Returned == call.op # "none" /\ call.res.out.kind = "return"

InOpenUnit(c) == FLt(Zero, c) /\ FLt(c, One)

\* weights each in [0, 1] and summing to 1
IsSimplex(w) ==
    /\ \A a \in DOMAIN w : FLeq(Zero, w[a]) /\ FLeq(w[a], One)
    /\ SumOver(DOMAIN w, w) = One

\* C1: every weight vector an optimization returns (optimize_portfolio for
\* any method, quantum_optimize, their equal-weight paths included) has each
\* weight in [0, 1] and the weights sum to 1.
C1_OptimizedWeightsOnSimplex ==
    (call.op \in {OP_OPTIMIZE, OP_QUANTUM} /\ Returned)
        => IsSimplex(call.res.out.value)

\* C2: whenever an optimizer returns the equal-weight vector because the
\* solver did not converge or an exception occurred, the result carries an
\* explicit degraded flag (usedFallback true).
C2_FallbackIsSignalled ==
    (/\ call.op \in {OP_OPTIMIZE, OP_QUANTUM}
     /\ returns.n >= 2
     /\ Returned
     /\ call.res.path \in {"not_converged", "exception", "fallback"})
        => /\ "usedFallback" \in DOMAIN call.res.out
           /\ call.res.out.usedFallback = TRUE

WEIGHT_TOLERANCE == R(1, 1000000)

SumsToOne(w) ==
    LET diff == FSub(SumOver(DOMAIN w, w), One)
    IN  FLeq(R(Abs(diff.n), diff.d), WEIGHT_TOLERANCE)

\* C3: calculate_portfolio_metrics rejects every weight vector (one entry
\* per asset of the matrix) whose weights do not sum to 1 within 1e-6 with
\* InvalidWeightsError, and returns no metrics for it.
C3_RejectsWeightsNotSummingToOne ==
    (/\ call.op = OP_METRICS
     /\ call.args.returns.n >= 1
     /\ call.args.weights.kind = "array"
     /\ Len(call.args.weights.w) = call.args.returns.n
     /\ ~SumsToOne(call.args.weights.w))
        => call.res.out = Raise("InvalidWeightsError")

NonDecreasing(c) == \A i \in 1..(Len(c) - 1) : FLeq(c[i], c[i + 1])

MaxDrawdownOk(series, md) ==
    /\ FLeq(md, Zero)
    /\ (md = Zero) <=> NonDecreasing(CumProd(series))

\* C4: the max drawdown of calculate_portfolio_metrics and of
\* RiskManager.calculate_max_drawdown is <= 0, and is 0 exactly when the
\* running product of (1 + r) never decreases, for all finite returns
\* (returns at or below -1 included).
C4_MaxDrawdownSignAndZero ==
    /\ (call.op = OP_DRAWDOWN /\ Returned)
          => MaxDrawdownOk(call.args.returns, call.res.out.value)
    /\ (call.op = OP_METRICS /\ Returned)
          => MaxDrawdownOk(call.res.out.value.portfolio_returns,
                           call.res.out.value.max_drawdown)

\* C5: for every series and every confidence level in (0, 1) the CVaR
\* returned is <= the VaR returned for the same series and level, for
\* RiskManager.calculate_cvar / calculate_var and for calculate_var_cvar.
C5_CvarAtMostVar ==
    /\ (call.op = OP_CVAR /\ Returned /\ InOpenUnit(call.args.confidence_level))
          => FLeq(call.res.out.value,
                  RM_calculate_var(call.args.returns,
                                   call.args.confidence_level).out.value)
    /\ (call.op = OP_VAR_CVAR /\ InOpenUnit(call.args.confidence_level))
          => /\ Returned
             /\ FLeq(call.res.out.value.cvar, call.res.out.value.var)

\* the mean of the returns at or below var, var itself when there is none
TailMean(series, var) ==
    LET tail == SelectLeq(series, var)
    IN  IF tail = <<>> THEN var ELSE Mean(tail)

\* C6: CVaR is the mean of all returns at or below the VaR threshold (the
\* return equal to VaR included), and equals VaR when no return is at or
\* below it; it is always a defined number.
C6_CvarIsTailMean ==
    /\ (call.op = OP_CVAR /\ Returned /\ InOpenUnit(call.args.confidence_level))
          => call.res.out.value =
                TailMean(call.args.returns,
                         RM_calculate_var(call.args.returns,
                                          call.args.confidence_level).out.value)
    /\ (call.op = OP_VAR_CVAR /\ Returned /\ InOpenUnit(call.args.confidence_level))
          => call.res.out.value.cvar =
                TailMean(call.args.returns, call.res.out.value.var)

\* C7: on the 10-point series at confidence 0.05 every VaR operation
\* returns -0.041, the linear interpolation at position 0.05 * 9 = 0.45
\* between -0.05 and -0.03.
C7_ScenarioVar ==
    (/\ call.op \in {OP_VAR, OP_VAR_CVAR}
     /\ call.args.returns = Scenario10
     /\ call.args.confidence_level = R(5, 100))
        => /\ Returned
           /\ (IF call.op = OP_VAR THEN call.res.out.value
               ELSE call.res.out.value.var) = R(-41, 1000)

\* C8: the VaR and CVaR operations fail with InvalidParameterError for every
\* confidence level outside the open interval (0, 1), 0 and 1 included.
C8_RejectsConfidenceOutsideUnit ==
    (/\ call.op \in {OP_VAR, OP_CVAR, OP_VAR_CVAR}
     /\ ~InOpenUnit(call.args.confidence_level))
        => call.res.out = Raise("InvalidParameterError")

\* C9: when the period returns are all equal (zero volatility) the Sharpe
\* computation fails with DegenerateInputError; no operation returns an
\* infinite or not-a-number Sharpe ratio.
C9_ZeroVolatilityIsAnError ==
    /\ (call.op = OP_SHARPE /\ Variance(call.args.returns) = Zero)
          => call.res.out = Raise("DegenerateInputError")
    /\ (call.op = OP_SHARPE /\ Returned)
          => IsFinite(call.res.out.value.sq)
    /\ (call.op = OP_METRICS /\ Returned)
          => /\ call.res.out.value.volatility.sq # Zero
             /\ call.res.out.value.sharpe_ratio.class = "finite"

\* C10: calculate_portfolio_metrics fails with DomainMismatchError when the
\* weight vector (here one that sums to 1) refers to an asset that is absent
\* from the return matrix.
C10_RejectsUnknownAsset ==
    (/\ call.op = OP_METRICS
     /\ call.args.returns.n >= 1
     /\ call.args.weights.kind = "series"
     /\ SumsToOne(call.args.weights.w)
     /\ ~(DOMAIN call.args.weights.w \subseteq 1..call.args.returns.n))
        => call.res.out = Raise("DomainMismatchError")

\* an exception arose inside the call: the except branch wrote its message
FailedInside == call.op # "none" /\ call.res.log # {}

\* C11: every engine error reaches the immediate caller as an error: a call
\* in which the computation failed ends in a raised error, never in a
\* returned default value (0.0, an empty report, equal weights).
C11_ErrorsReachTheCaller ==
    FailedInside => call.res.out.kind = "raise"

\* the product of (1 + s[i]) over the first k entries of s
RECURSIVE Compound(_, _)
Compound(s, k) ==
    IF k = 0 THEN One ELSE FMul(Compound(s, k - 1), FAdd(One, s[k]))

HALF == R(1, 2)

\* C12: the per-period portfolio return is the weighted sum of the assets'
\* returns of that period and the total return is the compound product of
\* (1 + period return) minus 1; for A = [0.01, -0.02, 0.03, 0.00],
\* B = [-0.01, 0.02, 0.01, 0.01] and weights 0.5 / 0.5 the period returns
\* are [0.00, 0.00, 0.02, 0.005] and the total return is 0.0251.
C12_WeightedSumAndCompounding ==
    (/\ call.op = OP_METRICS
     /\ call.args.weights.kind = "array")
        => LET m == call.args.returns
               w == call.args.weights.w
               res == call.res.out.value
           IN  /\ Returned
               /\ \A t \in 1..m.T :
                     res.portfolio_returns[t] =
                        FAdd(FMul(m.col[1][t], w[1]), FMul(m.col[2][t], w[2]))
               /\ res.total_return =
                     FSub(Compound(res.portfolio_returns, m.T), One)
               /\ (m = ScenarioAB /\ w = <<HALF, HALF>>)
                     => /\ res.portfolio_returns =
                              <<Zero, Zero, R(2, 100), R(5, 1000)>>
                        /\ res.total_return = R(251, 10000)

C12_ScenarioComputed ==
    /\ call.op = OP_METRICS
    /\ call.args.returns = ScenarioAB
    /\ call.args.weights = WArray(<<HALF, HALF>>)
    /\ Returned
    /\ call.res.out.value.total_return = R(251, 10000)

\* the one-asset matrix that holds the first column of m
FirstAssetAlone(m) == Matrix(1, m.T, <<m.col[1]>>)

MetricNames ==
    {"total_return", "annualized_return", "volatility", "sharpe_ratio",
     "max_drawdown"}

AllOnFirst(weights) ==
    weights \in {WArray(<<One, Zero>>), WSeries(<<One, Zero>>)}

\* C13: for every two-asset matrix {A, B}, the metrics with weights
\* {A: 1.0, B: 0.0} have the same total return, annualized return,
\* volatility, Sharpe ratio and max drawdown as the metrics of asset A's
\* series alone with weight 1.0.
C13_AllOnOneAssetEqualsThatAssetAlone ==
    (/\ call.op = OP_METRICS
     /\ call.args.returns.n = 2
     /\ AllOnFirst(call.args.weights))
        => LET alone == PA_calculate_portfolio_metrics(
                            FirstAssetAlone(call.args.returns),
                            WArray(<<One>>), risk_free_rate).out
           IN  /\ Returned
               /\ alone.kind = "return"
               /\ \A f \in MetricNames : call.res.out.value[f] = alone.value[f]

\* all weight on A while B has returns of its own
C13_SecondAssetIgnored ==
    /\ call.op = OP_METRICS
    /\ call.args.returns.n = 2
    /\ AllOnFirst(call.args.weights)
    /\ call.args.returns.col[2] # call.args.returns.col[1]
    /\ \E t \in 1..call.args.returns.T : call.args.returns.col[2][t] # Zero
    /\ Returned
    /\ call.res.out.value.total_return # Zero

\* C14: an optimization of a return matrix with exactly one asset returns
\* weight 1.0 for that asset, for every objective, and reports the result
\* as not a fallback (usedFallback false).
C14_SingleAssetFullWeightNoFallback ==
    (/\ call.op \in {OP_OPTIMIZE, OP_QUANTUM}
     /\ returns.n = 1)
        => /\ Returned
           /\ call.res.out.value = <<One>>
           /\ "usedFallback" \in DOMAIN call.res.out
           /\ call.res.out.usedFallback = FALSE

OP_MONTE_CARLO == "PortfolioAnalyzer.monte_carlo_simulation"

\* the terminal value of each simulated path of a reported simulation
TerminalValues ==
    [s \in 1..call.args.num_simulations |->
        call.res.out.value.simulations[s][call.args.time_horizon]]

C17_OperationsAreSideEffectFree ==
    [][/\ risk_free_rate' = risk_free_rate
       /\ optimization_history' = optimization_history
       /\ np_random' = np_random
       /\ (call'.op = OP_OPTIMIZE => call'.res.log = {})]_vars

\* C18: the weight vector quantum_optimize returns after its sampling loop
\* has a fitness (annualized return minus risk_tolerance times annualized
\* volatility) no lower than the fitness of any weight vector sampled in
\* that call.
C18_ReturnsBestSample ==
    (call.op = OP_QUANTUM /\ call.res.path = "sampled")
        => ~FitGt(call.res.sampled_best, Zero,
                  FitnessOf(returns, call.args.risk_tolerance, call.res.out.value))


\* the call in progress is a market-data fetch whose source failed: the
\* provider raised, or it returned no rows for the symbol
SourceFailed ==
    /\ call.op \in {"DataFetcher.get_stock_data", "FinancialTools.get_stock_data"}
    /\ \/ call.args.provider.kind = "exception"
       \/ call.args.provider.Close = <<>>

\* C19: a market-data fetch whose source fails (network failure, unknown
\* symbol) ends in a DomainMismatchError; the failure is neither passed on
\* as it is nor replaced by an empty result.
C19_FetchFailuresAreDomainMismatch ==
    SourceFailed => call.res.out = Raise("DomainMismatchError")

\* C20: the demo action labelled portfolio optimization runs the
\* portfolio-optimization handler, the one labelled risk analysis runs the
\* risk-analysis handler, and the AAPL demo runs the stock-analysis handler
\* on AAPL.
C20_DemoActionsRunTheirAnalysis ==
    /\ call.op = "on_demo_aapl" =>
          /\ call.res.out.value.handler = "handle_stock_analysis"
          /\ call.res.out.value.symbol = "AAPL"
    /\ call.op = "on_demo_portfolio" =>
          call.res.out.value.handler = "handle_portfolio_optimization"
    /\ call.op = "on_demo_risk" =>
          call.res.out.value.handler = "handle_risk_analysis"


\* C21: a message that names one supported company or ticker of the
\* symbol map is analysed under that company's ticker, never under the
\* ticker of another company whose key merely occurs inside the message.
C21_NamedCompanyIsAnalysed ==
    call.op = "handle_stock_analysis" =>
        call.res.out.value.symbol = call.args.names


\* C29: for the same return series and risk-free rate
\* RiskManager.calculate_sharpe_ratio returns the Sharpe ratio of
\* calculate_portfolio_metrics, (annualized return - rf) / volatility with
\* annualized return = (1 + mean)^252 - 1.  With s = sqrt(variance),
\* calculate_sharpe_ratio returns (252 * mean - rf) / (s * sqrt(252)) and
\* the metrics ((1 + mean)^252 - 1 - rf) / (s * sqrt(252)): on a series
\* of finite, non-zero variance the two agree exactly when
\* 252 * mean = (1 + mean)^252 - 1, which by Bernoulli's inequality (strict
\* for an even exponent and mean # 0) is the case mean = 0; the signs of
\* the two must agree as well.
C29_OneSharpeDefinition ==
    (/\ call.op = OP_SHARPE
     /\ Returned
     /\ IsFinite(Variance(call.args.returns))
     /\ Variance(call.args.returns) # Zero)
        => /\ Mean(call.args.returns) = Zero
           /\ call.res.out.value.sgn =
                 AnnExcessSign(MetricsOf(call.args.returns, risk_free_rate)
                                   .annualized_return.base)


OP_PROCESS_MESSAGE == "BaseAgent.process_message"

\* C22: once the generator of process_message is exhausted, the run it
\* created is COMPLETED or FAILED, on every path, the one on which the
\* input validation rejects the message included.
C22_RunsEndTerminal ==
    call.op = OP_PROCESS_MESSAGE =>
        /\ call.res.out.value.run_id \in DOMAIN runs
        /\ runs[call.res.out.value.run_id] \in {"completed", "failed"}

\* C24: a call of process_message without a run id gets a run id no earlier
\* call of the agent got, two calls of one clock second included, so
\* create_run never overwrites a run record.
C24_RunIdsAreUnique ==
    [][\A k \in DOMAIN generators' \ DOMAIN generators :
          generators'[k].op = OP_PROCESS_MESSAGE
             => generators'[k].run_id \notin DOMAIN runs]_vars

\* the message is one Guardrails.validate_input rejects: empty or blank,
\* longer than 5000 characters, or with a harmful pattern in it
Rejectable(message) ==
    /\ message # NOT_A_STR
    /\ \/ message \in {"", " ", "  ", "   "}
       \/ Len(message) > 5000
       \/ \E pattern \in {"hack", "exploit", "malware", "virus"},
             i \in 1..Len(message) :
             i + Len(pattern) - 1 <= Len(message)
                /\ Lower(SubSeq(message, i, i + Len(pattern) - 1)) = pattern

\* the hooks of these events in a trace of hook calls
HooksOf(trace, events) == SelectSeq(trace, LAMBDA h : h.event \in events)

\* C26: when validate_input rejects the message, process_message yields
\* the one validation-failure chunk, leaves the conversation history as it
\* was, and calls no on_message, on_complete or on_error hook.
C26_RejectedMessageHasNoEffect ==
    [][/\ \A k \in DOMAIN generators' :
             (generators'[k].op = OP_PROCESS_MESSAGE
              /\ Rejectable(generators'[k].message))
                => /\ conversation_history' = conversation_history
                   /\ Len(generators'[k].chunks) = 1
       /\ (call'.op = OP_PROCESS_MESSAGE /\ Rejectable(call'.args.message))
             => /\ conversation_history' = conversation_history
                /\ Len(call'.res.out.value.chunks) = 1
                /\ SubSeq(call'.res.out.value.chunks[1], 1, 23)
                      = "Input validation failed"
                /\ HooksOf(call'.res.out.value.hooks,
                           {"on_message", "on_complete", "on_error"}) = <<>>]_vars

\* a rejected call on an agent that has a history and an on_message hook
C26_RejectedAfterAcceptedCall ==
    /\ call.op = OP_PROCESS_MESSAGE
    /\ Rejectable(call.args.message)
    /\ conversation_history # <<>>
    /\ lifecycle_hooks["on_message"] # <<>>

\* every hook of the event, in registration order
AllHooks(event) ==
    [i \in DOMAIN lifecycle_hooks[event] |-> [event |-> event, hook |-> i]]

\* C27: a hook that raises stops neither the hooks registered after it
\* for the event nor the message: an accepted message is streamed in full
\* and its run ends COMPLETED; the on_complete hooks are called only with
\* the run COMPLETED, the on_error hooks only with the run FAILED, and
\* never both for one call.
C27_HooksAreIsolated ==
    call.op = OP_PROCESS_MESSAGE =>
        LET r == call.res.out.value
            accepted == call.args.message # NOT_A_STR /\ ~Rejectable(call.args.message)
        IN  /\ HooksOf(r.hooks, {"on_start"}) = AllHooks("on_start")
            /\ accepted =>
                  /\ r.chunks = response_parts
                  /\ runs[r.run_id] = "completed"
                  /\ r.hooks = AllHooks("on_start") \o AllHooks("on_message")
                                  \o AllHooks("on_complete")
            /\ HooksOf(r.hooks, {"on_complete"}) # <<>> =>
                  /\ runs[r.run_id] = "completed"
                  /\ HooksOf(r.hooks, {"on_error"}) = <<>>
            /\ HooksOf(r.hooks, {"on_error"}) # <<>> =>
                  /\ runs[r.run_id] = "failed"
                  /\ HooksOf(r.hooks, {"on_error"}) = AllHooks("on_error")

\* an accepted call whose first on_complete hook raised and whose second
\* on_complete hook was called
C27_SecondHookAfterRaisingHook ==
    /\ call.op = OP_PROCESS_MESSAGE
    /\ call.res.out.value.ended = "streaming"
    /\ lifecycle_hooks["on_complete"] = <<"raises", "returns">>
    /\ [event |-> "on_complete", hook |-> 2]
          \in {call.res.out.value.hooks[i] : i \in DOMAIN call.res.out.value.hooks}

OP_EXECUTE_AGENT == "AgentRunner.execute_agent"

\* C23: once a call of AgentRunner.execute_agent is exhausted, its run is
\* recorded as completed or failed, never as running, and as failed
\* whenever the specialized agent the request was routed to raised.
C23_RunnerRecordsTrueOutcome ==
    call.op = OP_EXECUTE_AGENT =>
        LET status == active_runs[call.res.out.value.run_id].status
        IN  /\ status \in {"completed", "failed"}
            /\ (call.res.out.value.raised => status = "failed")

\* C25: every call of execute_agent registers its run under a key that is
\* not yet in active_runs, so the number of entries of active_runs stays
\* equal to the number of calls started.
C25_RunnerRunIdsAreFresh ==
    [][/\ \A k \in DOMAIN generators' \ DOMAIN generators :
              generators'[k].op = OP_EXECUTE_AGENT
                  => generators'[k].run_id \notin DOMAIN active_runs
       /\ Cardinality(DOMAIN active_runs') = started']_vars

\* two calls for the same agent id are registered while the first one is
\* still running
C25_SecondRunOfAnAgentWhileFirstRuns ==
    \E r1, r2 \in DOMAIN active_runs :
        /\ r1 # r2
        /\ active_runs[r1].agent_id = active_runs[r2].agent_id
        /\ active_runs[r1].status = "running"
        /\ \E k1, k2 \in DOMAIN generators :
              /\ k1 < k2
              /\ generators[k1].run_id = r1
              /\ generators[k2].run_id = r2

\* C28: a specialized agent is never left RUNNING: after analyze_stock,
\* analyze_portfolio or assess_risk its agent_state is COMPLETED when the
\* call returned and ERROR when it raised, and the exception of the tool
\* or of the body is the one the caller gets.
C28_AgentNeverLeftRunning ==
    /\ \A a \in DOMAIN agent_state : agent_state[a] # "running"
    /\ \A c \in {<<"StockAnalysisAgent.analyze_stock", "stock">>,
                 <<"PortfolioAgent.analyze_portfolio", "portfolio">>,
                 <<"RiskAgent.assess_risk", "risk">>} :
           call.op = c[1] =>
               agent_state[c[2]] = IF call.res.out.kind = "return"
                                   THEN "completed" ELSE "error"
    /\ call.op = "StockAnalysisAgent.analyze_stock" =>
           LET stock_data == FT_get_stock_data(call.args.symbol, call.args.provider).out
           IN  (stock_data.kind = "raise" => call.res.out = stock_data)
    /\ call.op = "PortfolioAgent.analyze_portfolio" =>
           \A i \in DOMAIN call.args.holdings :
               (FT_get_stock_data(call.args.holdings[i][1],
                                  call.args.providers[i]).out.kind = "raise"
                   => call.res.out.kind = "raise")
    /\ call.op = "RiskAgent.assess_risk" =>
           ((/\ "risk_score" \in DOMAIN call.args.portfolio_data
             /\ "sq" \notin DOMAIN call.args.portfolio_data.risk_score)
               => call.res.out = Raise("TypeError"))

\* assess_risk raised after analyze_stock had returned and
\* analyze_portfolio had raised
C28_RiskRaisedAfterOtherAgents ==
    /\ call.op = "RiskAgent.assess_risk"
    /\ call.res.out.kind = "raise"
    /\ agent_state["risk"] = "error"
    /\ agent_state["stock"] = "completed"
    /\ agent_state["portfolio"] = "error"

====
